---- MODULE Spec2Model ----
(***************************************************************************)
(* Real-time feed and execution engine of the paper-trading simulator.     *)
(*                                                                         *)
(* The specifications of this module share its variables:                  *)
(*   SpecSlip  the slippage model and the fill-price computations, as pure *)
(*             functions applied to drawn inputs;                          *)
(*   Spec      the execution engine: concurrent execute_order attempts on  *)
(*             the durable store, the quote store and the (user,           *)
(*             instrument) lock;                                           *)
(*   SpecNet   the FIFO netting of _create_trade applied to drawn trade     *)
(*             books;                                                      *)
(*   SpecFeed  the feed bridge's ATM tracking and reset state machine;     *)
(*   SpecConn  the bridge's connection attempts and what a failed one      *)
(*             does (SpecConnFair adds the scheduling of its tasks);       *)
(*   SpecBcast the FEED_STATE and MARKET_UPDATE messages the bridge sends  *)
(*             to its client;                                              *)
(*   SpecSwitch switch_underlying running beside an ATM reset and its      *)
(*             forced restart;                                             *)
(*   SpecGreeks, SpecVwap  calculate_greeks and _apply_fill applied to     *)
(*             drawn inputs.                                               *)
(*                                                                         *)
(* Units: prices, spreads and balances are integers in paise (0.01), so    *)
(* 100.00 is 10000 and the two tick sizes 0.05 / 0.10 are 5 / 10.          *)
(* Time is in whole seconds.                                               *)
(***************************************************************************)
EXTENDS Integers, Sequences, FiniteSets, TLC

VARIABLES
    \* ---- slippage / fill computations (SpecSlip)
    calc,
    \* ---- execution engine (Spec)
    orders, trades, balance, lockExp, md, now, pc, att,
    \* ---- feed bridge (SpecFeed)
    feed,
    \* ---- feed bridge, connection attempts (SpecConn)
    conn,
    \* ---- feed bridge, messages to the client (SpecBcast)
    bc,
    \* ---- feed bridge, switch of the underlying (SpecSwitch)
    sw

slipVars == <<calc>>
execVars == <<orders, trades, balance, lockExp, md, now, pc, att>>
feedVars == <<feed>>
connVars == <<conn>>
bcVars == <<bc>>
swVars == <<sw>>
bridgeVars == <<conn, bc, sw>>
vars == <<calc, orders, trades, balance, lockExp, md, now, pc, att, feed, conn, bc, sw>>

Abs(x) == IF x < 0 THEN -x ELSE x
Min(a, b) == IF a <= b THEN a ELSE b

\* dict.get(key, default)
Get(d, k, dflt) == IF k \in DOMAIN d THEN d[k] ELSE dflt

(***************************************************************************)
(* SlippageModel.calculate_slippage                                        *)
(***************************************************************************)

\* TICK_SIZE: 0.05 below a price of 100, else 0.10
TickSmall == 5
TickLarge == 10
TickThreshold == 10000
TICK_SIZE(price) == IF price >= TickThreshold THEN TickLarge ELSE TickSmall

\* random.randint(80, 250)
LatencyMin == 80
LatencyMax == 250
\* iv fallback: float(market_data.get('iv', 0)) or 15.0
FallbackIV == 15
\* q_avail default and safety value
DefaultQty == 100000
\* spread default of calculate_slippage, market_data.get('spread', 1.0)
DefaultSpread == 100

\* The latency slip, the impact cost and the two guardrails are compared as
\* exact rationals over one denominator:
\*   latency_slip = price * (iv/16/100) * (latency_ms/1000) * bias * mod
\* with mod = 1.5 (stock) or 1.0 (index), i.e. in paise
\*   price * iv * latency_ms * bias * (2*mod) / 3200000.
SlipDenominator == 3200000

\* liquidity_mod, doubled: 1.5 -> 3, 1.0 -> 2
liquidity_mod2(is_stock) == IF is_stock THEN 3 ELSE 2

latency_slip_num(price, iv, latency_ms, direction_bias, is_stock) ==
    price * iv * latency_ms * direction_bias * liquidity_mod2(is_stock)

\* impact_ticks = ceil(sqrt(qty / q_avail) * impact_scaler), impact_scaler 2.0
\* for a stock and 0.5 for an index: the least n >= 0 with
\* n*n >= scaler^2 * qty / q_avail.
MaxImpactTicks == 4
impact_ticks(qty, q_avail, is_stock) ==
    LET ratioNum == IF qty < 0 THEN 0 ELSE qty
        ok(n) == IF is_stock THEN n * n * q_avail >= 4 * ratioNum
                             ELSE 4 * n * n * q_avail >= ratioNum
    IN  CHOOSE n \in 0..MaxImpactTicks :
            ok(n) /\ \A m \in 0..MaxImpactTicks : ok(m) => n <= m

\* round(): Python rounds a Decimal half-way case to the even integer.
\* num >= 0, den > 0.
round_half_even(num, den) ==
    LET q == num \div den
        r == num % den
    IN  IF 2 * r < den THEN q
        ELSE IF 2 * r > den THEN q + 1
        ELSE IF q % 2 = 0 THEN q ELSE q + 1

\* step 6, "Round to nearest tick"
round_to_tick(num, den) == round_half_even(num, den)

\* step 5, the guardrails: clamp to [0.5 * spread, 3.0 * spread]
clamp(total, min_slip, max_slip) ==
    LET t1 == IF total < min_slip THEN min_slip ELSE total
    IN  IF t1 > max_slip THEN max_slip ELSE t1

\* The spread the guardrails use: market_data['spread'], 1.0 when the key is
\* absent, and the tick size when it is <= 0.
guard_spread(market_data, price) ==
    LET s == Get(market_data, "spread", DefaultSpread)
    IN  IF s <= 0 THEN TICK_SIZE(price) ELSE s

calculate_slippage(side, price, qty, market_data, is_stock, latency_ms, direction_bias) ==
    LET tick    == TICK_SIZE(price)
        iv0     == Get(market_data, "iv", 0)
        iv      == IF iv0 = 0 THEN FallbackIV ELSE iv0
        q0      == Get(market_data, IF side = "BUY" THEN "ask_qty" ELSE "bid_qty", DefaultQty)
        q_avail == IF q0 <= 0 THEN DefaultQty ELSE q0
        impact  == impact_ticks(qty, q_avail, is_stock) * tick
        total   == latency_slip_num(price, iv, latency_ms, direction_bias, is_stock)
                   + impact * SlipDenominator
        spread  == guard_spread(market_data, price)
        \* min_slip = 0.5 * spread, max_slip = 3.0 * spread
        min_slip == (spread * SlipDenominator) \div 2
        max_slip == 3 * spread * SlipDenominator
        clamped == clamp(total, min_slip, max_slip)
        ticks   == round_to_tick(clamped, tick * SlipDenominator)
    IN  ticks * tick

(***************************************************************************)
(* ExecutionEngine: fill-price computations                                *)
(***************************************************************************)

\* spread default of the favorable cap in _execute_market,
\* market_data.get('spread', 0.05)
DefaultFavorableSpread == 5

NoFill == [filled |-> FALSE, fill_price |-> 0, fill_qty |-> 0,
           expected_price |-> 0, slippage |-> 0]

\* Rule 11, the favorable cap: a negative slippage is limited to 0.5 * spread
cap_favorable(total_slippage, market_data) ==
    LET spread == Get(market_data, "spread", DefaultFavorableSpread)
    IN  IF total_slippage < 0 /\ 2 * Abs(total_slippage) > spread
        THEN -(spread \div 2)
        ELSE total_slippage

\* _execute_market filling the top-of-book quantity instead of the remaining
\* quantity
execute_market_l1(order, bid, ask, market_data, is_stock, latency_ms, direction_bias) ==
    LET base_price == IF order.side = "BUY" THEN ask ELSE bid
        total_slippage ==
            cap_favorable(
                calculate_slippage(order.side, base_price, order.qty - order.filled_qty,
                                   market_data, is_stock, latency_ms, direction_bias),
                market_data)
    IN  [filled |-> TRUE,
         fill_price |-> IF order.side = "BUY" THEN base_price + total_slippage
                                              ELSE base_price - total_slippage,
         fill_qty |-> IF order.side = "BUY" THEN Get(market_data, "ask_qty", DefaultQty)
                                            ELSE Get(market_data, "bid_qty", DefaultQty),
         expected_price |-> base_price, slippage |-> total_slippage]

\* _execute_market: MARKET and INSTANT orders
execute_market(order, bid, ask, market_data, is_stock, latency_ms, direction_bias) ==
    LET remaining_qty == order.qty - order.filled_qty
        base_price == IF order.side = "BUY" THEN ask ELSE bid
        total_slippage ==
            cap_favorable(
                calculate_slippage(order.side, base_price, remaining_qty, market_data,
                                   is_stock, latency_ms, direction_bias),
                market_data)
        fill_price == IF order.side = "BUY" THEN base_price + total_slippage
                                            ELSE base_price - total_slippage
    IN  IF remaining_qty <= 0 THEN NoFill
        ELSE [filled |-> TRUE, fill_price |-> fill_price, fill_qty |-> remaining_qty,
              expected_price |-> base_price, slippage |-> total_slippage]

\* the slipped price taken as it is, without a cap
cap_at_limit_none(side, fill_price, limit_price) ==
    fill_price

\* "CAP at Limit Price" of _execute_limit
cap_at_limit(side, fill_price, limit_price) ==
    IF side = "BUY"
    THEN (IF fill_price > limit_price THEN limit_price ELSE fill_price)
    ELSE (IF fill_price < limit_price THEN limit_price ELSE fill_price)

\* _execute_limit
execute_limit(order, bid, ask, market_data, is_stock, latency_ms, direction_bias) ==
    LET remaining_qty == order.qty - order.filled_qty
        is_aggressive == IF order.side = "BUY" THEN order.limit_price >= ask
                                               ELSE order.limit_price <= bid
        should_fill == IF order.side = "BUY" THEN ask <= order.limit_price
                                             ELSE bid >= order.limit_price
        base_price == IF order.side = "BUY" THEN ask ELSE bid
        full_slippage == calculate_slippage(order.side, base_price, remaining_qty,
                                            market_data, is_stock, latency_ms, direction_bias)
        raw_fill == IF order.side = "BUY" THEN base_price + full_slippage
                                          ELSE base_price - full_slippage
        fill_price == IF is_aggressive
                      THEN cap_at_limit(order.side, raw_fill, order.limit_price)
                      ELSE base_price
        slippage == IF ~is_aggressive THEN 0
                    ELSE IF order.side = "BUY" THEN fill_price - base_price
                                               ELSE base_price - fill_price
    IN  IF remaining_qty <= 0 \/ ~should_fill THEN NoFill
        ELSE [filled |-> TRUE, fill_price |-> fill_price, fill_qty |-> remaining_qty,
              expected_price |-> base_price, slippage |-> slippage]

\* the dispatch at the end of execute_order
execute_by_type(order, bid, ask, market_data, is_stock, latency_ms, direction_bias) ==
    IF order.order_type \in {"MARKET", "INSTANT"}
    THEN execute_market(order, bid, ask, market_data, is_stock, latency_ms, direction_bias)
    ELSE execute_limit(order, bid, ask, market_data, is_stock, latency_ms, direction_bias)

\* _execute_market / _execute_limit when calculate_slippage raises: the
\* except branch takes a slippage of 0 and the fill goes on at the base price
execute_on_slippage_error(order, bid, ask) ==
    LET remaining_qty == order.qty - order.filled_qty
        base_price == IF order.side = "BUY" THEN ask ELSE bid
        should_fill == IF order.order_type \in {"MARKET", "INSTANT"} THEN TRUE
                       ELSE IF order.side = "BUY" THEN ask <= order.limit_price
                                                  ELSE bid >= order.limit_price
    IN  IF remaining_qty <= 0 \/ ~should_fill THEN NoFill
        ELSE [filled |-> TRUE, fill_price |-> base_price, fill_qty |-> remaining_qty,
              expected_price |-> base_price, slippage |-> 0]

(***************************************************************************)
(* SpecSlip: the slippage model and the fill computations on drawn inputs  *)
(***************************************************************************)

Sides == {"BUY", "SELL"}
Directions == {1, -1}
Latencies == LatencyMin..LatencyMax

\* inputs of the computations
SlipPrices == {9990, 10000, 15000}
SlipSpreads == {0, 5, 10, 25}
SlipQtys == {1, 10}
SlipBookQtys == {0, 50, 100000}
SlipIVs == {0, 15, 30}

\* the market_data dict handed to calculate_slippage
md_with_spread(spread, book_qty, iv) ==
    [spread |-> spread, bid_qty |-> book_qty, ask_qty |-> book_qty, iv |-> iv]

NoCalc == [op |-> "none"]

SlipInit == calc = NoCalc

\* one call of SlippageModel.calculate_slippage
SlipCalc ==
    /\ calc.op = "none"
    /\ UNCHANGED <<execVars, feedVars, bridgeVars>>
    /\ \E side \in Sides, price \in SlipPrices, qty \in SlipQtys, spread \in SlipSpreads,
       bq \in SlipBookQtys, iv \in SlipIVs, is_stock \in BOOLEAN,
       latency_ms \in Latencies, direction_bias \in Directions :
        LET m == md_with_spread(spread, bq, iv)
        IN  calc' = [op |-> "slippage", side |-> side, price |-> price, qty |-> qty,
                     spread |-> guard_spread(m, price), raw_spread |-> spread,
                     tick |-> TICK_SIZE(price),
                     out |-> calculate_slippage(side, price, qty, m, is_stock,
                                                latency_ms, direction_bias)]

\* the books the fills are computed on: bid <= ask, both > 0
SlipBooks == {<<9990, 10000>>, <<9995, 10000>>, <<10000, 10000>>,
              <<14990, 15000>>, <<9900, 9910>>}
SlipLimits == {9900, 9990, 10000, 10010, 10030, 15000}
SlipOrderQtys == {1, 10}

NewOrder(side, order_type, qty, limit_price) ==
    [side |-> side, order_type |-> order_type, qty |-> qty, limit_price |-> limit_price,
     filled_qty |-> 0, avg_fill_price |-> 0, expected_price |-> 0, slippage |-> 0,
     status |-> "OPEN"]

\* one call of _execute_market on an OPEN order
MarketFill ==
    /\ calc.op = "none"
    /\ UNCHANGED <<execVars, feedVars, bridgeVars>>
    /\ \E side \in Sides, ot \in {"MARKET", "INSTANT"}, qty \in SlipOrderQtys,
       book \in SlipBooks, bq \in {100000}, is_stock \in BOOLEAN,
       latency_ms \in Latencies, direction_bias \in Directions :
        LET m == md_with_spread(book[2] - book[1], bq, 0)
            o == NewOrder(side, ot, qty, 0)
        IN  calc' = [op |-> "market", side |-> side, order_type |-> ot, qty |-> qty,
                     bid |-> book[1], ask |-> book[2], limit_price |-> 0,
                     is_stock |-> is_stock, aggressive |-> TRUE,
                     out |-> execute_market(o, book[1], book[2], m, is_stock,
                                            latency_ms, direction_bias)]

\* one call of _execute_limit on an OPEN order
LimitFill ==
    /\ calc.op = "none"
    /\ UNCHANGED <<execVars, feedVars, bridgeVars>>
    /\ \E side \in Sides, qty \in SlipOrderQtys, book \in SlipBooks, limit \in SlipLimits,
       bq \in {100000}, is_stock \in BOOLEAN,
       latency_ms \in Latencies, direction_bias \in Directions :
        LET m == md_with_spread(book[2] - book[1], bq, 0)
            o == NewOrder(side, "LIMIT", qty, limit)
        IN  calc' = [op |-> "limit", side |-> side, order_type |-> "LIMIT", qty |-> qty,
                     bid |-> book[1], ask |-> book[2], limit_price |-> limit,
                     is_stock |-> is_stock,
                     aggressive |-> IF side = "BUY" THEN limit >= book[2]
                                                    ELSE limit <= book[1],
                     out |-> execute_limit(o, book[1], book[2], m, is_stock,
                                           latency_ms, direction_bias)]

SlipNext == SlipCalc \/ MarketFill \/ LimitFill

(***************************************************************************)
(* Quote Store: what the feed writes (market_feed._process_data) and what  *)
(* RedisManager.get_market_data hands back                                 *)
(***************************************************************************)

\* get_market_data returns {} for a missing key
EmptyMd == [present |-> FALSE]

\* the "Smart Fallback" block followed by set_market_data / get_market_data.
\* The caller has dropped the tick already when ltp = 0.
store_quote(ltp, bid, ask, bid_qty, ask_qty, recv_ts) ==
    LET bid_simulated == (bid = 0)
        ask_simulated == (ask = 0)
        b == IF bid_simulated THEN ltp ELSE bid
        a == IF ask_simulated THEN ltp ELSE ask
        real == ~bid_simulated /\ ~ask_simulated
    IN  [present |-> TRUE, ltp |-> ltp, bid |-> b, ask |-> a,
         bid_qty |-> IF bid_qty = 0 THEN DefaultQty ELSE bid_qty,
         ask_qty |-> IF ask_qty = 0 THEN DefaultQty ELSE ask_qty,
         bid_ts |-> IF real THEN recv_ts ELSE 0,
         ask_ts |-> IF real THEN recv_ts ELSE 0,
         bid_simulated |-> bid_simulated, ask_simulated |-> ask_simulated,
         spread |-> IF b > 0 /\ a > 0 THEN a - b ELSE 0]

\* spread_pct = spread / bid * 100 is stored beside spread; the engine only
\* asks whether it exceeds 10
spread_pct_above_10(m) ==
    Get(m, "bid", 0) > 0 /\ 10 * Get(m, "spread", 0) > Get(m, "bid", 0)

(***************************************************************************)
(* ExecutionEngine.execute_order: quote sourcing                           *)
(***************************************************************************)

\* BID_ASK_STALENESS_THRESHOLD_MS: 15000 for a wide spread, else 3000
StaleWideS == 15
StaleTightS == 3
\* the age given to a timestamp of 0
UnsetAge == 999999

staleness_threshold(m) == IF spread_pct_above_10(m) THEN StaleWideS ELSE StaleTightS

age(ts, t) == IF ts > 0 THEN t - ts ELSE UnsetAge

\* should_simulate; simulated_price = 0 stands for None
should_simulate(m, simulated_price, t) ==
    IF ~m.present \/ Get(m, "ltp", 0) = 0 THEN TRUE
    ELSE IF simulated_price # 0
    THEN IF Get(m, "bid_simulated", TRUE) # Get(m, "ask_simulated", TRUE) THEN TRUE
         ELSE \/ Get(m, "bid", 0) <= 0
              \/ Get(m, "ask", 0) <= 0
              \/ age(Get(m, "bid_ts", 0), t) > staleness_threshold(m)
              \/ age(Get(m, "ask_ts", 0), t) > staleness_threshold(m)
    ELSE FALSE

simulated_md(simulated_price) ==
    [present |-> TRUE, ltp |-> simulated_price, bid |-> simulated_price,
     ask |-> simulated_price, bid_qty |-> DefaultQty, ask_qty |-> DefaultQty]

\* the market data the attempt goes on with
used_md(m, simulated_price, t) ==
    IF should_simulate(m, simulated_price, t) /\ simulated_price # 0
    THEN simulated_md(simulated_price)
    ELSE m

\* "Spread validation": a crossed market
crossed(m) == Get(m, "bid", 0) > 0 /\ Get(m, "ask", 0) > 0 /\ Get(m, "bid", 0) > Get(m, "ask", 0)

\* the aborts without the spread validation
aborts_uncrossed(m) == ~m.present \/ Get(m, "ltp", 0) = 0

\* the three aborts between quote sourcing and the dispatch by order type
aborts(m) == ~m.present \/ Get(m, "ltp", 0) = 0 \/ crossed(m)

(***************************************************************************)
(* SpecQuote: one tick written to the Quote Store, and one execution       *)
(* attempt of a MARKET order on the quote read back                        *)
(***************************************************************************)

\* decoded ticks <<ltp, bid, ask>>; 0 stands for a side that is missing or 0
QuoteTicks == {<<10000, 9990, 10010>>, <<10000, 10000, 10000>>,
               <<100, 80, 100>>, <<10000, 0, 10010>>,
               <<10000, 9990, 0>>, <<10000, 0, 0>>}
\* recv_ts of the tick, and the seconds from it to the attempt: the key
\* md:{instrument_key} expires 10 s after it was written
QuoteRecvTs == 100
QuoteAges == {0, 2, 3, 4, 9}
\* simulated_price of the attempt; 0 stands for None
QuoteSimPrices == {0, 10005}

\* _process_data: the "Smart Fallback" block and set_market_data
StoreQuote ==
    /\ calc.op = "none"
    /\ UNCHANGED <<execVars, feedVars, bridgeVars>>
    /\ \E tick \in QuoteTicks :
        calc' = [op |-> "store", ltp |-> tick[1], bid |-> tick[2], ask |-> tick[3],
                 quote |-> store_quote(tick[1], tick[2], tick[3], 0, 0, QuoteRecvTs)]

\* execute_order of an OPEN MARKET order from get_market_data to the fill
\* that _execute_market computes
QuoteExecute ==
    /\ calc.op = "none"
    /\ UNCHANGED <<execVars, feedVars, bridgeVars>>
    /\ \E tick \in QuoteTicks, a \in QuoteAges, simulated_price \in QuoteSimPrices,
          side \in Sides :
        LET t == QuoteRecvTs + a
            m == store_quote(tick[1], tick[2], tick[3], 0, 0, QuoteRecvTs)
            u == used_md(m, simulated_price, t)
            o == NewOrder(side, "MARKET", 1, 0)
        IN  calc' = [op |-> "quote", side |-> side, sim |-> simulated_price, t |-> t,
                     quote |-> m,
                     out |-> IF aborts(u) THEN NoFill
                             ELSE execute_market(o, u.bid, u.ask, u, FALSE, LatencyMin, 1)]

QuoteNext == StoreQuote \/ QuoteExecute

(***************************************************************************)
(* ExecutionEngine: fill application and FIFO netting                      *)
(***************************************************************************)

\* a fill averaged without its quantities
apply_fill_unweighted(order, fill_price, fill_qty) ==
    LET total_filled == order.filled_qty + fill_qty
        new_avg == IF order.filled_qty = 0 THEN fill_price
                   ELSE (order.avg_fill_price + fill_price) \div 2
    IN  [order EXCEPT !.filled_qty = total_filled,
                      !.avg_fill_price = new_avg,
                      !.status = IF total_filled >= order.qty THEN "FILLED"
                                 ELSE IF total_filled > 0 THEN "PARTIAL"
                                 ELSE order.status]

\* _apply_fill, up to the status update: the VWAP and the new status.  The
\* Decimal quotient is kept at the resolution of the model, one paisa (the
\* column avg_fill_price keeps four decimals); a NULL average counts as 0
apply_fill(order, fill_price, fill_qty) ==
    LET total_filled == order.filled_qty + fill_qty
        previous_total == order.avg_fill_price * order.filled_qty
        new_total == previous_total + fill_price * fill_qty
        new_avg == new_total \div total_filled
    IN  [order EXCEPT !.filled_qty = total_filled,
                      !.avg_fill_price = new_avg,
                      !.status = IF total_filled >= order.qty THEN "FILLED"
                                 ELSE IF total_filled > 0 THEN "PARTIAL"
                                 ELSE order.status]

OppositeSide(side) == IF side = "BUY" THEN "SELL" ELSE "BUY"

\* the rows the netting query selects: OPEN trades of the opposite side
\* (one user and one instrument are modelled)
opposite_open(ts, side) ==
    {i \in DOMAIN ts : ts[i].side = OppositeSide(side) /\ ts[i].status = "OPEN"}

\* .order_by(Trade.created_at.asc()): every order of the selected rows that
\* is ascending in created_at; rows with equal created_at come in any order
fifo_orders_any(ts, side) ==
    LET S == opposite_open(ts, side)
        n == Cardinality(S)
    IN  {q \in [1..n -> S] : \A a, b \in 1..n : a # b => q[a] # q[b]}

fifo_orders(ts, side) ==
    LET S == opposite_open(ts, side)
        n == Cardinality(S)
    IN  {q \in [1..n -> S] :
            /\ \A a, b \in 1..n : a # b => q[a] # q[b]
            /\ \A a, b \in 1..n : a < b => ts[q[a]].created_at <= ts[q[b]].created_at}

\* realized PnL of closing close_qty of a trade at exit_price
realized_pnl_swapped(trade_side, entry_price, exit_price, close_qty) ==
    IF trade_side = "BUY" THEN (entry_price - exit_price) * close_qty
                          ELSE (exit_price - entry_price) * close_qty

realized_pnl(trade_side, entry_price, exit_price, close_qty) ==
    IF trade_side = "BUY" THEN (exit_price - entry_price) * close_qty
                          ELSE (entry_price - exit_price) * close_qty

NoUpdates == [i \in {} |-> 0]

\* the columns a full close and a partial close write on the existing row
FullCloseCols == {"status", "exit_price", "exit_order_id", "realized_pnl"}
PartialCloseCols == {"qty"}

\* the body of "for trade in existing_trades", on the session's rows ts
RECURSIVE net_loop(_, _, _, _, _)
net_loop(ids, ts, order, oid, acc) ==
    IF ids = <<>> \/ acc.remaining_qty <= 0 THEN acc
    ELSE
        LET i == Head(ids)
            trade == ts[i]
            close_qty == Min(trade.qty, acc.remaining_qty)
            full == (close_qty = trade.qty)
            pnl == realized_pnl(trade.side, trade.entry_price, order.avg_fill_price, close_qty)
            exit_value == close_qty * order.avg_fill_price
            closed_row == [trade EXCEPT !.status = "CLOSED",
                                        !.exit_price = order.avg_fill_price,
                                        !.exit_order_id = oid,
                                        !.realized_pnl = pnl]
            reduced_row == [trade EXCEPT !.qty = trade.qty - close_qty]
            closed_part == [side |-> trade.side, qty |-> close_qty,
                            entry_price |-> trade.entry_price,
                            exit_price |-> order.avg_fill_price,
                            status |-> "CLOSED", realized_pnl |-> pnl,
                            created_at |-> 0, order_id |-> trade.order_id,
                            exit_order_id |-> oid]
        IN  net_loop(Tail(ids), ts, order, oid,
                [upd |-> (i :> [row  |-> IF full THEN closed_row ELSE reduced_row,
                                cols |-> IF full THEN FullCloseCols ELSE PartialCloseCols])
                         @@ acc.upd,
                 ins |-> IF full THEN acc.ins ELSE Append(acc.ins, closed_part),
                 bal |-> IF order.side = "SELL" THEN acc.bal + exit_value
                                                ELSE acc.bal - exit_value,
                 remaining_qty |-> acc.remaining_qty - close_qty])

\* _create_trade up to its commit: the session's pending writes
create_trade(order, oid, ts, ids, bal) ==
    LET r == net_loop(ids, ts, order, oid,
                      [upd |-> NoUpdates, ins |-> <<>>, bal |-> bal,
                       remaining_qty |-> order.qty])
        transaction_value == r.remaining_qty * order.avg_fill_price
        new_trade == [side |-> order.side, qty |-> r.remaining_qty,
                      entry_price |-> order.avg_fill_price, exit_price |-> 0,
                      status |-> "OPEN", realized_pnl |-> 0, created_at |-> 0,
                      order_id |-> oid, exit_order_id |-> 0]
    IN  IF r.remaining_qty > 0
        THEN [upd |-> r.upd, ins |-> Append(r.ins, new_trade),
              bal |-> IF order.side = "BUY" THEN r.bal - transaction_value
                                            ELSE r.bal + transaction_value]
        ELSE [upd |-> r.upd, ins |-> r.ins, bal |-> r.bal]

(***************************************************************************)
(* SpecFeed: the feed bridge's ATM tracking (market_feed.UpstoxFeedBridge) *)
(***************************************************************************)

\* datetime.now().timestamp() when the bridge is built, far beyond the
\* cooldown measured from last_reset_ts = 0
StartTs == 5
MaxTs == 16
\* "if now_ts - self.last_reset_ts < 5.0"
ResetCooldown == 5
\* RESET_TIMEOUT = 10
ResetTimeout == 10
\* LIVE_STRIKE_WINDOW
LiveStrikeWindow == 8
\* get_strike_step when no step was detected for the symbol
DefaultStrikeStep == 50

\* option catalogs of an underlying: the strikes listed for its symbol
Catalogs == {{1150, 1200, 1250, 1300}, {1180, 1230, 1280}, {1240}}
\* spot prices of the ticks
Spots == {1200, 1210, 1225, 1240, 1260}

\* instrument_manager: the least positive difference of the sorted strikes
min_strike_diff(strikes) ==
    CHOOSE d \in {b - a : a, b \in strikes} :
        d > 0 /\ \A a, b \in strikes : b - a > 0 => d <= b - a

\* instrument_manager.get_strike_step: the detected step, which exists for a
\* symbol with more than one strike, else the default
get_strike_step(strikes) ==
    IF Cardinality(strikes) > 1 THEN min_strike_diff(strikes) ELSE DefaultStrikeStep

\* calculate_atm: round(spot / step) * step, round() being Python's
calculate_atm(spot_price, strike_step) ==
    IF strike_step <= 0 THEN spot_price
    ELSE round_half_even(spot_price, strike_step) * strike_step

\* sorted(strikes_in_keys)[len(strikes_in_keys) // 2] for the call and the put
\* key of every strike: the list holds every strike twice
estimated_atm(strikes) ==
    LET n == 2 * Cardinality(strikes)
        below(x) == 2 * Cardinality({y \in strikes : y < x})
    IN  CHOOSE x \in strikes : below(x) <= n \div 2 /\ n \div 2 < below(x) + 2

NoMove == [active |-> FALSE, spot |-> 0, resets |-> 0]
NoTick == [within |-> FALSE, started |-> FALSE, first |-> FALSE, prev |-> 0,
           during |-> FALSE]

\* UpstoxFeedBridge.__init__; current_atm = 0 stands for None. seeded and
\* ticked are history: the caller of switch_underlying gave option keys, and
\* a spot tick has come since the bridge was built or switched;
\* reset_start_ts is the time of the latest reset start, 0 for none, and
\* last.prev the one before it when the last tick started a reset;
\* last.during tells that the last tick came with reset_in_progress set, and
\* reset_tasks counts the reset tasks that have not ended
FeedInit ==
    feed = [connection_state |-> "NOT_CONNECTED", current_atm |-> 0,
            reset_in_progress |-> FALSE, last_reset_ts |-> 0,
            strike_step |-> DefaultStrikeStep, n_subs |-> 1,
            task |-> "none", task_atm |-> 0, task_start |-> 0, t |-> StartTs,
            move |-> NoMove, last |-> NoTick,
            seeded |-> FALSE, ticked |-> FALSE, reset_start_ts |-> 0,
            reset_tasks |-> 0]

\* switch_underlying: hard close, subscriptions and ATM from the client's
\* keys (or the spot key alone), strike step of the new underlying; the new
\* session is launched by the connect_and_run task it creates
SwitchUnderlying ==
    /\ feed.connection_state \notin {"SWITCHING", "DISCONNECTING"}
    /\ \E cat \in Catalogs, with_keys \in BOOLEAN :
        feed' = [feed EXCEPT
                    !.connection_state = "NOT_CONNECTED",
                    !.current_atm = IF with_keys THEN estimated_atm(cat) ELSE 0,
                    !.n_subs = IF with_keys THEN 1 + 2 * Cardinality(cat) ELSE 1,
                    !.strike_step = get_strike_step(cat),
                    !.move = NoMove, !.last = NoTick,
                    !.seeded = with_keys, !.ticked = FALSE]
    /\ UNCHANGED <<slipVars, execVars, bridgeVars>>

\* connect_and_run with the market open, up to the transport being opened
ConnectAndRun ==
    /\ feed.connection_state \notin {"CONNECTED", "CONNECTING"}
    /\ feed' = [feed EXCEPT !.connection_state = "CONNECTING",
                            !.move = NoMove, !.last = NoTick]
    /\ UNCHANGED <<slipVars, execVars, bridgeVars>>

\* the transport reports the session open
FeedOpen ==
    /\ feed.connection_state = "CONNECTING"
    /\ feed' = [feed EXCEPT !.connection_state = "CONNECTED", !.last = NoTick]
    /\ UNCHANGED <<slipVars, execVars, bridgeVars>>

\* "ATM_SHIFT_THRESHOLD = self.strike_step / 2; spot_shift >= ATM_SHIFT_THRESHOLD"
significant_shift(new_atm, current_atm, strike_step) ==
    2 * Abs(new_atm - current_atm) >= strike_step

cooldown_active(now_ts, last_reset_ts) == now_ts - last_reset_ts < ResetCooldown

\* reset tasks are counted up to this number
MaxResetTasks == 2

\* a monitor that starts resets without looking at reset_in_progress
monitor_decision_unlocked(f, ltp) ==
    LET new_atm == calculate_atm(ltp, f.strike_step)
    IN  IF f.current_atm = 0
        THEN IF f.n_subs <= 2 THEN "init" ELSE "adopt"
        ELSE IF new_atm # f.current_atm
                /\ significant_shift(new_atm, f.current_atm, f.strike_step)
                /\ ~cooldown_active(f.t, f.last_reset_ts)
        THEN "shift" ELSE "none"

\* what the dynamic reset monitor of _process_data decides on a spot tick:
\* "init" (first tick, reset), "adopt" (first tick, no reset), "shift"
\* (reset for an ATM shift) or "none"
monitor_decision(f, ltp) ==
    LET new_atm == calculate_atm(ltp, f.strike_step)
    IN  IF f.current_atm = 0
        THEN IF f.reset_in_progress THEN "none"
             ELSE IF f.n_subs <= 2 THEN "init" ELSE "adopt"
        ELSE IF new_atm # f.current_atm
                /\ significant_shift(new_atm, f.current_atm, f.strike_step)
                /\ ~cooldown_active(f.t, f.last_reset_ts)
                /\ ~f.reset_in_progress
        THEN "shift" ELSE "none"

\* _process_data on a tick of the underlying with ltp # 0
SpotTick ==
    /\ feed.connection_state = "CONNECTED"
    /\ \E ltp \in Spots :
        LET new_atm == calculate_atm(ltp, feed.strike_step)
            d == monitor_decision(feed, ltp)
            started == d \in {"init", "shift"}
            \* history of the tick: it lies strictly within half a strike
            \* step of the current ATM
            within == feed.current_atm # 0
                      /\ 2 * Abs(ltp - feed.current_atm) < feed.strike_step
            \* history of the move: the tick's ATM strike differs from the
            \* current ATM, no reset is in progress and the cooldown has
            \* elapsed; the move is held while the spot stays at its value
            opens == /\ feed.current_atm # 0
                     /\ new_atm # feed.current_atm
                     /\ ~feed.reset_in_progress
                     /\ feed.t - feed.last_reset_ts >= ResetCooldown
            held == feed.move.active /\ feed.move.spot = ltp
        IN  feed' = [feed EXCEPT
                !.current_atm = IF d \in {"init", "adopt"} THEN new_atm ELSE @,
                !.reset_in_progress = IF started THEN TRUE ELSE @,
                !.last_reset_ts = IF d = "shift" THEN feed.t ELSE @,
                !.task = IF started THEN "created" ELSE @,
                !.task_atm = IF started THEN new_atm ELSE @,
                !.last = [within |-> within, started |-> started,
                          first |-> ~feed.ticked,
                          prev |-> IF started THEN feed.reset_start_ts ELSE 0,
                          during |-> feed.reset_in_progress],
                !.reset_tasks = IF started THEN Min(MaxResetTasks, @ + 1) ELSE @,
                !.reset_start_ts = IF started THEN feed.t ELSE @,
                !.ticked = TRUE,
                !.move = IF held
                         THEN [@ EXCEPT !.resets = Min(2, @ + (IF started THEN 1 ELSE 0))]
                         ELSE IF opens
                         THEN [active |-> TRUE, spot |-> ltp,
                               resets |-> IF started THEN 1 ELSE 0]
                         ELSE NoMove]
    /\ UNCHANGED <<slipVars, execVars, bridgeVars>>

\* _reset_feed_for_new_atm up to its reconnect: current_atm is set, the
\* session is stopped and connect_and_run begun; with no expiry known the
\* task returns at once
ResetTaskStart ==
    /\ feed.task = "created"
    /\ \/ feed' = [feed EXCEPT !.current_atm = feed.task_atm,
                               !.task = "running", !.task_start = feed.t,
                               !.connection_state = "CONNECTING",
                               !.n_subs = 1 + 2 * (2 * LiveStrikeWindow + 1),
                               !.last = NoTick]
       \/ feed' = [feed EXCEPT !.current_atm = feed.task_atm,
                               !.task = "none", !.task_atm = 0,
                               !.reset_tasks = @ - 1,
                               !.reset_in_progress = FALSE, !.last = NoTick]
    /\ UNCHANGED <<slipVars, execVars, bridgeVars>>

\* the reset ending within its timeout (connect_and_run returned or raised)
ResetComplete ==
    /\ feed.task = "running"
    /\ feed.t - feed.task_start < ResetTimeout
    /\ feed' = [feed EXCEPT !.task = "none", !.task_atm = 0, !.task_start = 0,
                            !.reset_tasks = @ - 1,
                            !.reset_in_progress = FALSE, !.last = NoTick]
    /\ UNCHANGED <<slipVars, execVars, bridgeVars>>

\* asyncio.TimeoutError after RESET_TIMEOUT, then force_full_restart
ResetTimedOut ==
    /\ feed.task = "running"
    /\ feed.t - feed.task_start >= ResetTimeout
    /\ feed' = [feed EXCEPT !.task = "none", !.task_atm = 0, !.task_start = 0,
                            !.reset_tasks = @ - 1,
                            !.reset_in_progress = FALSE,
                            !.connection_state = "NOT_CONNECTED",
                            !.move = NoMove, !.last = NoTick]
    /\ UNCHANGED <<slipVars, execVars, bridgeVars>>

\* one second passes
FeedClock ==
    /\ feed.t < MaxTs
    /\ feed' = [feed EXCEPT !.t = @ + 1, !.last = NoTick]
    /\ UNCHANGED <<slipVars, execVars, bridgeVars>>

FeedNext ==
    \/ SwitchUnderlying
    \/ ConnectAndRun
    \/ FeedOpen
    \/ SpotTick
    \/ ResetTaskStart
    \/ ResetComplete
    \/ ResetTimedOut
    \/ FeedClock

(***************************************************************************)
(* SpecConn: the connection attempts of one bridge (connect_and_run,       *)
(* UpstoxWebSocketFeed.connect and the callbacks of socket_manager)        *)
(***************************************************************************)

\* the authorization calls are counted up to this number
MaxAuthCalls == 3

\* how the upstream answers a request: accepted, or an error of a class
Answers == {"ok", "401", "403", "other"}

NoEvent == [kind |-> "none", class |-> "none"]

\* UpstoxFeedBridge.__init__ and the session set-up of socket_manager: the
\* broker account holds a valid token, and the first connect_and_run task has
\* been created
ConnInit ==
    conn = [connection_state |-> "NOT_CONNECTED", task |-> "created",
            subs_empty |-> TRUE, cred_status |-> "TOKEN_VALID", token |-> TRUE,
            notices |-> {}, auth_calls |-> 0, last |-> NoEvent]

\* socket_manager.invalidate_token: the notice, then the account row
invalidate_token(c) ==
    [c EXCEPT !.notices = @ \cup {"TOKEN_EXPIRED"},
              !.cred_status = "TOKEN_EXPIRED", !.token = FALSE]

\* the except branches and the finally of UpstoxWebSocketFeed.connect:
\* on_error_callback is _on_custom_error (a log line), on_close_callback is
\* _on_custom_close; connect returns, so connect_and_run ends with it
connect_failed(c, class) ==
    [c EXCEPT !.connection_state = "NOT_CONNECTED", !.task = "none",
              !.last = [kind |-> "rejected", class |-> class]]

\* the market-closed branch going on with the connection all the same
market_closed_connects(c) ==
    [c EXCEPT !.connection_state = "CONNECTING", !.task = "authorizing",
              !.last = [kind |-> "market_closed", class |-> "none"]]

\* connect_and_run, "RULE #2: MARKET CLOSED MODE = REST ONLY": the state, the
\* MARKET_STATUS notice of _send_market_closed_event, and the return
market_closed(c) ==
    [c EXCEPT !.connection_state = "MARKET_CLOSED",
              !.notices = @ \cup {"MARKET_STATUS"},
              !.task = "none",
              !.last = [kind |-> "market_closed", class |-> "none"]]

\* connect_and_run from its start to the call of custom_feed.connect()
ConnActivate ==
    /\ conn.task = "created"
    /\ \/ /\ conn.connection_state \in {"CONNECTED", "CONNECTING"}
          /\ conn' = [conn EXCEPT !.task = "none", !.last = NoEvent]
       \/ /\ conn.connection_state \notin {"CONNECTED", "CONNECTING"}
          /\ \E market_open \in BOOLEAN, ltp_answer \in {"ok", "401"} :
                IF ~market_open
                THEN conn' = market_closed(conn)
                ELSE LET c1 == [conn EXCEPT !.connection_state = "CONNECTING",
                                            !.task = "authorizing",
                                            !.last = NoEvent]
                     IN  \* _get_default_nifty_instruments when nothing is
                         \* subscribed yet
                         conn' = IF ~conn.subs_empty THEN c1
                                 ELSE IF ltp_answer = "401" THEN invalidate_token(c1)
                                 ELSE [c1 EXCEPT !.subs_empty = FALSE]
    /\ UNCHANGED <<slipVars, execVars, feedVars, bcVars, swVars>>

\* UpstoxWebSocketFeed.connect: get_authorized_url, then the guard against
\* an empty subscription
Authorize ==
    /\ conn.task = "authorizing"
    /\ \E answer \in Answers :
        LET c1 == [conn EXCEPT !.auth_calls = Min(MaxAuthCalls, @ + 1)]
        IN  conn' = IF answer # "ok" THEN connect_failed(c1, answer)
                    ELSE IF conn.subs_empty
                    THEN [c1 EXCEPT !.connection_state = "NOT_CONNECTED",
                                    !.task = "none", !.last = NoEvent]
                    ELSE [c1 EXCEPT !.task = "handshake", !.last = NoEvent]
    /\ UNCHANGED <<slipVars, execVars, feedVars, bcVars, swVars>>

\* UpstoxWebSocketFeed.connect: websockets.connect on the authorized URL;
\* _on_custom_open on success
Handshake ==
    /\ conn.task = "handshake"
    /\ \E answer \in Answers :
        conn' = IF answer # "ok" THEN connect_failed(conn, answer)
                ELSE [conn EXCEPT !.connection_state = "CONNECTED", !.task = "open",
                                  !.notices = @ \cup {"UPSTOX_FEED_CONNECTED", "FEED_STATE"},
                                  !.last = NoEvent]
    /\ UNCHANGED <<slipVars, execVars, feedVars, bcVars, swVars>>

\* the open transport fails (a WebSocketException in the receive loop)
TransportError ==
    /\ conn.task = "open"
    /\ conn' = [conn EXCEPT !.connection_state = "NOT_CONNECTED", !.task = "none",
                            !.last = [kind |-> "transport_error", class |-> "other"]]
    /\ UNCHANGED <<slipVars, execVars, feedVars, bcVars, swVars>>

\* the client's switch_underlying command: hard close (which ends an open
\* transport), new subscriptions, a new connect_and_run task
ClientSwitch ==
    /\ conn.task \in {"none", "open"}
    /\ conn.connection_state \notin {"SWITCHING", "DISCONNECTING"}
    /\ conn' = [conn EXCEPT !.connection_state = "NOT_CONNECTED", !.task = "created",
                            !.subs_empty = FALSE,
                            !.notices = @ \cup {"FEED_STATE"},
                            !.last = [kind |-> "client", class |-> "none"]]
    /\ UNCHANGED <<slipVars, execVars, feedVars, bcVars, swVars>>

ConnNext ==
    \/ ConnActivate
    \/ Authorize
    \/ Handshake
    \/ TransportError
    \/ ClientSwitch

(***************************************************************************)
(* Spec: the execution engine.  One user and one instrument (an index      *)
(* option), so every attempt contends for the same lock key.  Each process *)
(* is one caller of execute_order; its steps are the awaits of the call.   *)
(***************************************************************************)

\* process 1 serves the order routes, process 2 is an execution-monitor task
Procs == {1, 2}
Routes == {1}
Monitors == {2}
MaxOrders == 2
MaxNow == 2
\* User.virtual_balance default 50000.00
InitialBalance == 5000000
\* acquire_lock(lock_key, ttl=1)
LockTTL == 1

EngineQtys == {1}
EngineTypes == {"MARKET", "LIMIT"}
EngineLimits == {9990}
\* the draws of an attempt: latency_ms = random.randint(80, 250) at its low
\* end, direction_bias adverse (SpecSlip covers the whole ranges)
EngineLatencies == {LatencyMin}
EngineDirections == {1}
\* simulated_price / exit_price of a request; 0 stands for None
SimPrices == {0, 10000}
\* decoded ticks <<ltp, bid, ask>>: a normal book and a crossed book
RawTicks == {<<10000, 9990, 10000>>, <<10000, 10500, 10000>>}

NoOrder == [present |-> FALSE]
NoPend == [present |-> FALSE]
\* fail: the failure the attempt has met, "none", "quote" (missing,
\* zero-LTP or crossed quote), "slippage" or "commit"
NoAtt == [kind |-> "none", oid |-> 0, sim |-> 0, bal |-> 0, o |-> NoOrder,
          term |-> FALSE, crossed |-> FALSE, pend |-> NoPend, fail |-> "none"]

ExecInit ==
    /\ orders = <<>>
    /\ trades = <<>>
    /\ balance = InitialBalance
    /\ lockExp = 0
    /\ md = EmptyMd
    /\ now = 1
    /\ pc = [p \in Procs |-> "idle"]
    /\ att = [p \in Procs |-> NoAtt]

\* routers/orders.create_order up to its call of execute_order: the OPEN
\* order is committed; the session's user row was loaded with the request
SubmitOrder(p) ==
    /\ pc[p] = "idle"
    /\ Len(orders) < MaxOrders
    /\ \E side \in Sides, ot \in EngineTypes, qty \in EngineQtys,
          limit \in EngineLimits, sim \in SimPrices :
        /\ orders' = Append(orders,
                        NewOrder(side, ot, qty, IF ot = "LIMIT" THEN limit ELSE 0))
        /\ att' = [att EXCEPT ![p] = [NoAtt EXCEPT !.kind = "route",
                                                   !.oid = Len(orders) + 1,
                                                   !.sim = sim, !.bal = balance]]
    /\ pc' = [pc EXCEPT ![p] = "acquire"]
    /\ UNCHANGED <<trades, balance, lockExp, md, now, calc, feed, bridgeVars>>

\* routers/orders.exit_trade up to its call of execute_order: a MARKET order
\* of the opposite side for the OPEN trade's quantity
ExitTrade(p) ==
    /\ pc[p] = "idle"
    /\ Len(orders) < MaxOrders
    /\ \E i \in DOMAIN trades, sim \in SimPrices :
        /\ trades[i].status = "OPEN"
        /\ orders' = Append(orders,
                        NewOrder(OppositeSide(trades[i].side), "MARKET", trades[i].qty, 0))
        /\ att' = [att EXCEPT ![p] = [NoAtt EXCEPT !.kind = "exit",
                                                   !.oid = Len(orders) + 1,
                                                   !.sim = sim, !.bal = balance]]
    /\ pc' = [pc EXCEPT ![p] = "acquire"]
    /\ UNCHANGED <<trades, balance, lockExp, md, now, calc, feed, bridgeVars>>

\* check_pending_orders, started by the execution monitor or by a tick:
\* an order selected as OPEN or PARTIAL is handed to execute_order with no
\* simulated price
MonitorPick(p) ==
    /\ pc[p] = "idle"
    /\ \E oid \in DOMAIN orders :
        /\ orders[oid].status \in {"OPEN", "PARTIAL"}
        /\ att' = [att EXCEPT ![p] = [NoAtt EXCEPT !.kind = "monitor", !.oid = oid]]
    /\ pc' = [pc EXCEPT ![p] = "acquire"]
    /\ UNCHANGED <<orders, trades, balance, lockExp, md, now, calc, feed, bridgeVars>>

\* RedisManager.acquire_lock: SET lock_key "1" NX EX ttl.  The key carries no
\* owner; it is gone once its TTL has run out.
lock_free == lockExp <= now

AcquireLock(p) ==
    /\ pc[p] = "acquire"
    /\ IF lock_free
       THEN /\ lockExp' = now + LockTTL
            /\ pc' = [pc EXCEPT ![p] = "refresh"]
            /\ att' = att
       ELSE /\ lockExp' = lockExp
            /\ pc' = [pc EXCEPT ![p] = "idle"]
            /\ att' = [att EXCEPT ![p] = NoAtt]
    /\ UNCHANGED <<orders, trades, balance, md, now, calc, feed, bridgeVars>>

\* "if order.status not in [OPEN, PARTIAL]: return"
eligible_always(status) == TRUE

eligible(status) == status \in {"OPEN", "PARTIAL"}

\* await self.db.refresh(order) and the status check
Refresh(p) ==
    /\ pc[p] = "refresh"
    /\ LET o == orders[att[p].oid]
       IN  /\ att' = [att EXCEPT ![p].o = o,
                                 ![p].term = (o.status \in {"FILLED", "CANCELLED"})]
           /\ pc' = [pc EXCEPT ![p] = IF eligible(o.status) THEN "execute" ELSE "release"]
    /\ UNCHANGED <<orders, trades, balance, lockExp, md, now, calc, feed, bridgeVars>>

\* the rows the session writes at commit: the order, the touched columns of
\* the matched trades, the inserted trades and the user's balance
fill_writes(order, oid, res, ts, ids, bal) ==
    LET o2 == [apply_fill(order, res.fill_price, res.fill_qty)
                 EXCEPT !.expected_price = res.expected_price,
                        !.slippage = res.slippage]
        ct == create_trade(o2, oid, ts, ids, bal)
    IN  IF o2.status = "FILLED"
        THEN [present |-> TRUE, order |-> o2, upd |-> ct.upd, ins |-> ct.ins,
              user |-> TRUE, bal |-> ct.bal]
        ELSE [present |-> TRUE, order |-> o2, upd |-> NoUpdates, ins |-> <<>>,
              user |-> FALSE, bal |-> bal]

\* execute_order from the quote fetch to the session's pending writes
Execute(p) ==
    /\ pc[p] = "execute"
    /\ LET m == used_md(md, att[p].sim, now)
           o == att[p].o
           bal == IF att[p].kind = "monitor" THEN balance ELSE att[p].bal
       IN  IF aborts(m)
           THEN /\ att' = [att EXCEPT ![p].crossed = crossed(m), ![p].fail = "quote"]
                /\ pc' = [pc EXCEPT ![p] = "release"]
           ELSE \E latency_ms \in EngineLatencies, direction_bias \in EngineDirections,
                   slip_err \in BOOLEAN, ids \in fifo_orders(trades, o.side) :
                LET res == IF slip_err
                           THEN execute_on_slippage_error(o, m.bid, m.ask)
                           ELSE execute_by_type(o, m.bid, m.ask, m, FALSE,
                                                latency_ms, direction_bias)
                IN  IF res.filled
                    THEN /\ att' = [att EXCEPT
                                      ![p].crossed = crossed(m),
                                      ![p].fail = IF slip_err THEN "slippage" ELSE "none",
                                      ![p].pend = fill_writes(o, att[p].oid, res,
                                                              trades, ids, bal)]
                         /\ pc' = [pc EXCEPT ![p] = "commit"]
                    ELSE /\ att' = [att EXCEPT ![p].crossed = crossed(m)]
                         /\ pc' = [pc EXCEPT ![p] = "release"]
    /\ UNCHANGED <<orders, trades, balance, lockExp, md, now, calc, feed, bridgeVars>>

\* the UPDATE of one trade row: only the columns the session changed
merge_row(row, u) ==
    [k \in DOMAIN row |-> IF k \in u.cols THEN u.row[k] ELSE row[k]]

RECURSIVE stamp(_, _)
stamp(rows, t) ==
    IF rows = <<>> THEN <<>>
    ELSE <<[Head(rows) EXCEPT !.created_at = t]>> \o stamp(Tail(rows), t)

\* the trade rows after the transaction: UPDATEs of the touched rows, then
\* the INSERTs, created_at = now() of the server
commit_trades(rows, w, t) ==
    [i \in DOMAIN rows |->
        IF i \in DOMAIN w.upd THEN merge_row(rows[i], w.upd[i]) ELSE rows[i]]
    \o stamp(w.ins, t)

\* await self.db.commit() succeeding: one transaction
Commit(p) ==
    /\ pc[p] = "commit"
    /\ LET w == att[p].pend
       IN  /\ orders' = [orders EXCEPT ![att[p].oid] = w.order]
           /\ trades' = commit_trades(trades, w, now)
           /\ balance' = IF w.user THEN w.bal ELSE balance
    /\ pc' = [pc EXCEPT ![p] = "release"]
    /\ UNCHANGED <<lockExp, md, now, att, calc, feed, bridgeVars>>

\* a failed commit that leaves the order row written and the trades and the
\* balance not
CommitFailPartial(p) ==
    /\ pc[p] = "commit"
    /\ pc' = [pc EXCEPT ![p] = "release"]
    /\ att' = [att EXCEPT ![p].fail = "commit"]
    /\ orders' = [orders EXCEPT ![att[p].oid] = att[p].pend.order]
    /\ UNCHANGED <<trades, balance, lockExp, md, now, calc, feed, bridgeVars>>

\* the commit raising: rollback, the exception is logged by execute_order
CommitFail(p) ==
    /\ pc[p] = "commit"
    /\ pc' = [pc EXCEPT ![p] = "release"]
    /\ att' = [att EXCEPT ![p].fail = "commit"]
    /\ UNCHANGED <<orders, trades, balance, lockExp, md, now, calc, feed, bridgeVars>>

\* finally: RedisManager.release_lock, an unconditional DEL of the key
Release(p) ==
    /\ pc[p] = "release"
    /\ lockExp' = 0
    /\ pc' = [pc EXCEPT ![p] = "idle"]
    /\ att' = [att EXCEPT ![p] = NoAtt]
    /\ UNCHANGED <<orders, trades, balance, md, now, calc, feed, bridgeVars>>

\* a tick of the instrument written to the Quote Store
FeedTick ==
    /\ \E r \in RawTicks : md' = store_quote(r[1], r[2], r[3], 0, 0, now)
    /\ UNCHANGED <<orders, trades, balance, lockExp, now, pc, att, calc, feed, bridgeVars>>

\* one second passes
Tick ==
    /\ now < MaxNow
    /\ now' = now + 1
    /\ UNCHANGED <<orders, trades, balance, lockExp, md, pc, att, calc, feed, bridgeVars>>

\* the cancel route (not part of the sources): an OPEN or PARTIAL order
\* becomes CANCELLED
CancelOrder ==
    /\ \E oid \in DOMAIN orders :
        /\ orders[oid].status \in {"OPEN", "PARTIAL"}
        /\ orders' = [orders EXCEPT ![oid].status = "CANCELLED"]
    /\ UNCHANGED <<trades, balance, lockExp, md, now, pc, att, calc, feed, bridgeVars>>

ExecNext ==
    \/ \E p \in Routes : SubmitOrder(p)
    \/ \E p \in Routes : ExitTrade(p)
    \/ \E p \in Monitors : MonitorPick(p)
    \/ \E p \in Procs : AcquireLock(p)
    \/ \E p \in Procs : Refresh(p)
    \/ \E p \in Procs : Execute(p)
    \/ \E p \in Procs : Commit(p)
    \/ \E p \in Procs : CommitFail(p)
    \/ \E p \in Procs : Release(p)
    \/ FeedTick
    \/ Tick
    \/ CancelOrder

(***************************************************************************)
(* Messages to the client: FEED_STATE versions and MARKET_UPDATE batches    *)
(***************************************************************************)

\* FEED_STATE broadcasts are counted up to this number
MaxVersion == 4
\* ticks of one instrument
MaxSeq == 2
\* MARKET_UPDATE batches kept in the history of the session
MaxBatches == 3

\* the underlying and one call / put pair of the same strike
underlying_key == "index"
Instruments == {underlying_key, "CE", "PE"}

\* the tasks that broadcast the feed state: the open callback, the ATM reset
\* (RESETTING, then LIVE or CLOSED on its timeout) and switch_underlying
Broadcasters == {"open", "reset", "switch"}

EmptyUpdates == [k \in {} |-> 0]

\* dict assignment d[k] = v
put(d, k, v) == [j \in DOMAIN d \cup {k} |-> IF j = k THEN v ELSE d[j]]

\* no pass of the broadcast loop has run
NoCycle == [ran |-> FALSE, had_spot |-> FALSE, ws_open |-> FALSE, sent_spot |-> FALSE]

\* UpstoxFeedBridge.__init__, with the client's socket accepted. spot_ltp
\* tells whether self.spot_ltp > 0 and spot_derived whether that value came
\* from put-call parity; spots is the entry of the underlying in each batch
\* of batches, and cycle the latest pass of the broadcast loop
BcastInit ==
    bc = [last_feed_state_version |-> 0,
          feed_states             |-> << >>,
          sending                 |-> {},
          ws_open                 |-> TRUE,
          seq_map                 |-> [k \in Instruments |-> 0],
          update_buffer           |-> EmptyUpdates,
          spot_ltp                |-> FALSE,
          spot_derived            |-> FALSE,
          batches                 |-> << >>,
          spots                   |-> << >>,
          cycle                   |-> NoCycle,
          loop                    |-> "running"]

\* a broadcast that reuses the current version
broadcast_feed_state_stale(c) ==
    LET version == c.last_feed_state_version
    IN  [c EXCEPT !.last_feed_state_version = version,
                  !.feed_states = IF c.ws_open THEN Append(@, version) ELSE @]

\* _broadcast_feed_state up to the call of send_text: no await lies between
\* the increment, the message built from it and the call that hands the
\* message to the socket
broadcast_feed_state(c) ==
    LET version == c.last_feed_state_version + 1
    IN  [c EXCEPT !.last_feed_state_version = version,
                  !.feed_states = IF c.ws_open THEN Append(@, version) ELSE @]

\* one task calls _broadcast_feed_state and is suspended in send_text
BroadcastFeedState(t) ==
    /\ t \notin bc.sending
    /\ bc.last_feed_state_version < MaxVersion
    /\ bc' = [broadcast_feed_state(bc) EXCEPT
                 !.sending = IF bc.ws_open THEN @ \cup {t} ELSE @]
    /\ UNCHANGED <<slipVars, execVars, feedVars, connVars, swVars>>

\* send_text returns to the task that awaited it
SendReturns(t) ==
    /\ t \in bc.sending
    /\ bc' = [bc EXCEPT !.sending = @ \ {t}]
    /\ UNCHANGED <<slipVars, execVars, feedVars, connVars, swVars>>

\* the client's socket leaves the CONNECTED state
ClientCloses ==
    /\ bc.ws_open
    /\ bc' = [bc EXCEPT !.ws_open = FALSE]
    /\ UNCHANGED <<slipVars, execVars, feedVars, connVars, swVars>>

\* _process_data for one instrument of a frame, its ltp not 0
ProcessData(key) ==
    /\ bc.seq_map[key] < MaxSeq
    /\ LET current_seq == bc.seq_map[key] + 1
       IN  bc' = [bc EXCEPT !.seq_map[key] = current_seq,
                            !.spot_ltp = IF key = underlying_key THEN TRUE ELSE @,
                            !.spot_derived = IF key = underlying_key THEN FALSE ELSE @,
                            !.update_buffer = put(@, key, current_seq)]
    /\ UNCHANGED <<slipVars, execVars, feedVars, connVars, swVars>>

\* _broadcast_loop: the entry of the underlying put into every batch.
\* pair: the instrument details resolve a call and a put of one strike
inject_spot(c, updates_to_send, pair) ==
    IF c.spot_ltp
    THEN put(updates_to_send, underlying_key, c.seq_map[underlying_key])
    ELSE IF /\ underlying_key \notin DOMAIN updates_to_send
            /\ Cardinality(DOMAIN updates_to_send) >= 2
            /\ pair
         THEN put(updates_to_send, underlying_key, 0)
         ELSE updates_to_send

\* one pass of _broadcast_loop that finds updates in the buffer
BroadcastLoop ==
    /\ bc.loop = "running"
    /\ DOMAIN bc.update_buffer # {}
    /\ Len(bc.batches) < MaxBatches
    /\ \E pair \in BOOLEAN :
         LET updates_to_send == inject_spot(bc, bc.update_buffer, pair)
             derived == ~bc.spot_ltp /\ underlying_key \in DOMAIN updates_to_send
                        /\ underlying_key \notin DOMAIN bc.update_buffer
             \* the "synthetic" key of the underlying's entry, and whether
             \* its ltp is a parity value
             spot == [sent |-> underlying_key \in DOMAIN updates_to_send,
                      synthetic |-> derived,
                      parity |-> derived \/ (bc.spot_ltp /\ bc.spot_derived)]
         IN  bc' = [bc EXCEPT
                       !.update_buffer = EmptyUpdates,
                       !.spot_ltp = @ \/ derived,
                       !.spot_derived = @ \/ derived,
                       !.loop = IF bc.ws_open THEN @ ELSE "stopped",
                       !.batches = IF bc.ws_open THEN Append(@, updates_to_send)
                                                 ELSE @,
                       !.spots = IF bc.ws_open THEN Append(@, spot) ELSE @,
                       !.cycle = [ran |-> TRUE,
                                  had_spot |-> bc.spot_ltp /\ ~bc.spot_derived,
                                  ws_open |-> bc.ws_open,
                                  sent_spot |-> bc.ws_open /\ spot.sent]]
    /\ UNCHANGED <<slipVars, execVars, feedVars, connVars, swVars>>

\* one pass of _broadcast_loop that finds the buffer empty: "if
\* self.update_buffer:" is false and nothing is sent
BroadcastIdle ==
    /\ bc.loop = "running"
    /\ DOMAIN bc.update_buffer = {}
    /\ bc' = [bc EXCEPT !.cycle = [ran |-> TRUE,
                                   had_spot |-> bc.spot_ltp /\ ~bc.spot_derived,
                                   ws_open |-> bc.ws_open,
                                   sent_spot |-> FALSE]]
    /\ UNCHANGED <<slipVars, execVars, feedVars, connVars, swVars>>

BcastNext ==
    \/ \E t \in Broadcasters : BroadcastFeedState(t)
    \/ \E t \in Broadcasters : SendReturns(t)
    \/ ClientCloses
    \/ \E key \in Instruments : ProcessData(key)
    \/ BroadcastLoop
    \/ BroadcastIdle

(***************************************************************************)
(* SpecFrame: _process_data on one inbound message of several instruments  *)
(***************************************************************************)

\* what the record of an instrument is: a tick with ltp # 0, a record with
\* ltp = 0 ("continue"), or one whose handling raises (a value float() or
\* int() rejects, or a tick of the underlying that reaches the cooldown log
\* line and its unbound loop_count)
FrameKinds == {"tick", "zero", "raises"}

\* the messages: the records of one to three instruments in the order of
\* the dict
Frames ==
    {f \in UNION {[1..n -> [key : Instruments, kind : FrameKinds]] : n \in 1..3} :
        \A i, j \in DOMAIN f : i # j => f[i].key # f[j].key}

\* the "for raw_key, feed_data in feeds.items()" loop inside the one try of
\* _process_data: the keys that are sequenced, buffered and stored
RECURSIVE process_feeds(_)
process_feeds(feeds) ==
    IF feeds = << >> THEN {}
    ELSE LET h == Head(feeds)
         IN  IF h.kind = "raises" THEN {}
             ELSE (IF h.kind = "tick" THEN {h.key} ELSE {})
                  \cup process_feeds(Tail(feeds))

\* one call of _process_data
ProcessFrame ==
    /\ calc.op = "none"
    /\ UNCHANGED <<execVars, feedVars, bridgeVars>>
    /\ \E f \in Frames :
        calc' = [op |-> "frame", feeds |-> f, processed |-> process_feeds(f)]

FrameNext == ProcessFrame

(***************************************************************************)
(* greeks_calculator: the input validation of calculate_greeks              *)
(***************************************************************************)

\* spot, strike and option price (rupees) and the days to expiry drawn for
\* calculate_greeks: below, at and above the limits of the validation
GreekPrices == {-1, 0, 1, 2}
GreekDays == {-1, 0, 1, 7}
OptionTypes == {"CE", "PE"}

ZeroGreeks == [iv |-> 0, delta |-> 0, theta |-> 0, gamma |-> 0, vega |-> 0]

\* the outcomes of the Black-Scholes part, its arithmetic not modelled: the
\* zeros (no volatility found, one above 5.0, or an exception caught) or a
\* dictionary of computed values, here a representative one
ComputedGreeks == {ZeroGreeks, [iv |-> 1, delta |-> 1, theta |-> 1, gamma |-> 1, vega |-> 1]}

\* a validation that looks at the prices only
invalid_inputs_prices_only(spot_price, strike_price, time_to_expiry_days, option_ltp) ==
    spot_price <= 0 \/ strike_price <= 0 \/ option_ltp <= 0

\* calculate_greeks, "Validate inputs": the two early returns
invalid_inputs(spot_price, strike_price, time_to_expiry_days, option_ltp) ==
    \/ spot_price <= 0 \/ strike_price <= 0 \/ option_ltp <= 0
    \/ time_to_expiry_days < 0

\* the dictionaries calculate_greeks can return; none of its statements outside
\* the try block raises on numbers
calculate_greeks(spot_price, strike_price, time_to_expiry_days, option_ltp, option_type) ==
    IF invalid_inputs(spot_price, strike_price, time_to_expiry_days, option_ltp)
    THEN {[raised |-> FALSE, greeks |-> ZeroGreeks]}
    ELSE {[raised |-> FALSE, greeks |-> g] : g \in ComputedGreeks}

\* one call of calculate_greeks
GreeksCalc ==
    /\ calc.op = "none"
    /\ UNCHANGED <<execVars, feedVars, bridgeVars>>
    /\ \E spot_price \in GreekPrices, strike_price \in GreekPrices,
          time_to_expiry_days \in GreekDays, option_ltp \in GreekPrices,
          option_type \in OptionTypes :
         \E out \in calculate_greeks(spot_price, strike_price, time_to_expiry_days,
                                     option_ltp, option_type) :
            calc' = [op |-> "greeks", spot_price |-> spot_price,
                     strike_price |-> strike_price,
                     time_to_expiry_days |-> time_to_expiry_days,
                     option_ltp |-> option_ltp, option_type |-> option_type,
                     out |-> out]

GreeksNext == GreeksCalc

(***************************************************************************)
(* _apply_fill applied to sequences of fills                               *)
(***************************************************************************)

\* fills of one order
MaxFills == 3
VwapQtys == {1, 2, 3}
VwapPrices == {10005, 10010, 10020}

\* the orders after each of the fills, the order as submitted first
RECURSIVE apply_fills(_, _)
apply_fills(order, fills) ==
    IF fills = << >> THEN <<order>>
    ELSE <<order>> \o apply_fills(apply_fill(order, fills[1].price, fills[1].qty),
                                  Tail(fills))

\* _apply_fill called for each fill of one order
VwapFills ==
    /\ calc.op = "none"
    /\ UNCHANGED <<execVars, feedVars, bridgeVars>>
    /\ \E n \in 1..MaxFills, side \in Sides :
         \E qs \in [1..n -> VwapQtys], ps \in [1..n -> VwapPrices] :
            LET fills == [i \in 1..n |-> [qty |-> qs[i], price |-> ps[i]]]
                order == NewOrder(side, "LIMIT", MaxFills * 3, ps[1])
            IN  calc' = [op |-> "vwap", fills |-> fills,
                         out |-> apply_fills(order, fills)]

VwapNext == VwapFills

(***************************************************************************)
(* switch_underlying beside an ATM reset: the tasks of one bridge, one     *)
(* step per stretch of code between two awaits                             *)
(***************************************************************************)

\* upstream sessions recorded of those begun after the switch was accepted
MaxSessions == 2

\* the session the client has before it switches
OldKeys == {"old", "oldCE"}
\* switch_underlying(newUnderlying, candidateKeys): the key newUnderlying
\* resolves to and the keys the client sends
ResolvedKey == "new"
CandidateKeys == {"newCE"}
\* _get_default_nifty_instruments
DefaultKeys == {"dflt"}

\* _reset_feed_for_new_atm: the underlying and the option chain around the
\* new ATM
chain_keys(underlying) == {underlying, IF underlying = "old" THEN "oldCE2" ELSE "newCE2"}

\* the tasks that call connect_and_run
ConnectTasks == {"reset", "switch", "restart", "restart_feed"}

\* no connect() is running; a feed notes whether connect_and_run created it
\* after the switch was accepted
NoFeed == [phase |-> "none", keys |-> {}, after_switch |-> FALSE]

\* a bridge CONNECTED to the session of the old underlying, its
\* connect_and_run task inside custom_feed.connect(); broadcast_task and
\* execution_task hold the loops that have not ended: "running" is the one
\* the attribute refers to, "cancelling" one whose cancel() was called and
\* whose reference was dropped; reset_feed_state is the status of the last
\* FEED_STATE the reset task has sent; restart_feed is the position of a
\* call of restart_feed; transports counts the websockets that are open
SwitchInit ==
    sw = [connection_state |-> "CONNECTED",
          underlying_key   |-> "old",
          subscriptions    |-> OldKeys,
          custom_feed      |-> TRUE,
          feed             |-> [phase |-> "open", keys |-> OldKeys, after_switch |-> FALSE],
          lock_owner       |-> "session",
          waiting          |-> {},
          switch           |-> "idle",
          reset            |-> "none",
          new_keys         |-> {},
          accepted         |-> FALSE,
          opened           |-> << >>,
          broadcast_task   |-> {"running"},
          execution_task   |-> {"running"},
          stop             |-> "idle",
          reset_feed_state |-> "none",
          restart_feed     |-> "idle",
          transports       |-> 1]

\* custom_feed.disconnect(): closes the websocket if the feed has one
disconnect(c) ==
    IF c.custom_feed /\ c.feed.phase = "open"
    THEN [c EXCEPT !.feed.phase = "closing"]
    ELSE c

\* task.cancel() on the future of run_coroutine_threadsafe, then
\* "self.broadcast_task = None": the cancellation is asked for and not awaited
cancel(tasks) ==
    IF "running" \in tasks THEN (tasks \ {"running"}) \cup {"cancelling"} ELSE tasks

\* _on_custom_open: "if not self.broadcast_task or self.broadcast_task.done()"
start_if_absent(tasks) == tasks \cup {"running"}

\* _hard_close up to its awaits
hard_close_begin(c) ==
    disconnect([c EXCEPT !.connection_state = "DISCONNECTING",
                         !.broadcast_task = cancel(@),
                         !.execution_task = cancel(@)])

\* _hard_close, "Clear state"
hard_close_end(c) ==
    [c EXCEPT !.custom_feed = FALSE,
              !.subscriptions = {},
              !.connection_state = "NOT_CONNECTED"]

\* cancelling the task inside custom_feed.connect() leaves
\* "async with websockets.connect(...)": its websocket, if open, is closed
closed_by_cancel(c, own) ==
    IF own /\ c.feed.phase \in {"open", "closing"} THEN 1 ELSE 0

\* the caller of connect_and_run goes on when the call returns
returned(c, t) ==
    IF t = "reset" /\ c.reset = "connecting" THEN [c EXCEPT !.reset = "live"] ELSE c

\* connect_and_run with the connect lock free and the market open, up to the
\* call of custom_feed.connect()
connect_and_run(c, t) ==
    IF c.connection_state \in {"CONNECTED", "CONNECTING"}
    THEN returned(c, t)
    ELSE LET subs == IF c.subscriptions = {} THEN DefaultKeys ELSE c.subscriptions
         IN  [c EXCEPT !.connection_state = "CONNECTING",
                       !.subscriptions = subs,
                       !.custom_feed = TRUE,
                       !.feed = [phase |-> "authorizing", keys |-> subs,
                                 after_switch |-> c.accepted],
                       !.lock_owner = t]

\* a call that enters connect_and_run whoever holds the connect lock
call_connect_and_run_unlocked(c, t) ==
    connect_and_run(c, t)

\* "async with self.connect_lock": the caller runs on if the lock is free
\* and waits for it otherwise
call_connect_and_run(c, t) ==
    IF c.lock_owner = "none" THEN connect_and_run(c, t)
    ELSE [c EXCEPT !.waiting = @ \cup {t}]

\* a created or waiting connect_and_run gets the lock
RunConnect(t) ==
    /\ t \in sw.waiting
    /\ sw.lock_owner = "none"
    /\ sw' = connect_and_run([sw EXCEPT !.waiting = @ \ {t}], t)
    /\ UNCHANGED <<slipVars, execVars, feedVars, connVars, bcVars>>

\* UpstoxWebSocketFeed.connect: the websocket opens, _on_custom_open runs and
\* the subscription for the feed's keys is sent
FeedOpens ==
    /\ sw.feed.phase = "authorizing"
    /\ sw' = [sw EXCEPT !.feed.phase = "open",
                        !.transports = @ + 1,
                        !.connection_state = "CONNECTED",
                        !.broadcast_task = start_if_absent(@),
                        !.execution_task = start_if_absent(@),
                        !.opened = IF sw.feed.after_switch /\ Len(@) < MaxSessions
                                   THEN Append(@, sw.feed.keys) ELSE @]
    /\ UNCHANGED <<slipVars, execVars, feedVars, connVars, bcVars>>

\* the receive loop of a closed websocket ends: _on_custom_close, and
\* connect_and_run returns and releases the lock
FeedFinishes ==
    /\ sw.feed.phase = "closing"
    /\ sw' = returned([sw EXCEPT !.feed = NoFeed,
                                 !.transports = @ - 1,
                                 !.connection_state = "NOT_CONNECTED",
                                 !.lock_owner = "none"], sw.lock_owner)
    /\ UNCHANGED <<slipVars, execVars, feedVars, connVars, bcVars>>

\* _process_data: a tick of the underlying moves the ATM and creates the
\* reset task
AtmShiftTick ==
    /\ sw.feed.phase = "open"
    /\ sw.underlying_key \in sw.feed.keys
    /\ sw.reset = "none"
    /\ sw' = [sw EXCEPT !.reset = "created"]
    /\ UNCHANGED <<slipVars, execVars, feedVars, connVars, bcVars>>

\* _reset_feed_for_new_atm up to the RESETTING broadcast
ResetStart ==
    /\ sw.reset = "created"
    /\ sw' = [sw EXCEPT !.reset = "notified", !.reset_feed_state = "RESETTING"]
    /\ UNCHANGED <<slipVars, execVars, feedVars, connVars, bcVars>>

\* _reset_feed_for_new_atm: the instrument manager has no expiry for the
\* underlying; the reset returns and its "finally" runs
ResetNoExpiry ==
    /\ sw.reset = "notified"
    /\ sw' = [sw EXCEPT !.reset = "done"]
    /\ UNCHANGED <<slipVars, execVars, feedVars, connVars, bcVars>>

\* _reset_feed_for_new_atm: the keys of the new window, then wait_for(_do_reset)
ResetBuild ==
    /\ sw.reset = "notified"
    /\ sw' = [sw EXCEPT !.new_keys = chain_keys(sw.underlying_key),
                        !.reset = "stopping"]
    /\ UNCHANGED <<slipVars, execVars, feedVars, connVars, bcVars>>

\* _do_reset: stop() enters _hard_close
ResetStop ==
    /\ sw.reset = "stopping"
    /\ sw' = [hard_close_begin(sw) EXCEPT !.reset = "closing"]
    /\ UNCHANGED <<slipVars, execVars, feedVars, connVars, bcVars>>

\* _do_reset: _hard_close ends, the new keys become the subscriptions and
\* connect_and_run is called
ResetClosed ==
    /\ sw.reset = "closing"
    /\ sw' = call_connect_and_run(
                 [hard_close_end(sw) EXCEPT !.subscriptions = sw.new_keys,
                                            !.reset = "connecting"], "reset")
    /\ UNCHANGED <<slipVars, execVars, feedVars, connVars, bcVars>>

\* the reset ends with its LIVE broadcast
ResetLive ==
    /\ sw.reset = "live"
    /\ sw' = [sw EXCEPT !.reset = "done", !.reset_feed_state = "LIVE"]
    /\ UNCHANGED <<slipVars, execVars, feedVars, connVars, bcVars>>

\* RESET_TIMEOUT: _do_reset is cancelled where it waits, a connect() of its
\* own included; the CLOSED broadcast and force_full_restart up to its sleep
ResetCancelled ==
    /\ sw.reset \in {"closing", "connecting"}
    /\ LET own == sw.lock_owner = "reset"
       IN  sw' = [sw EXCEPT !.waiting = @ \ {"reset"},
                            !.transports = @ - closed_by_cancel(sw, own),
                            !.feed = IF own THEN NoFeed ELSE @,
                            !.lock_owner = IF own THEN "none" ELSE @,
                            !.connection_state = "FAILED",
                            !.reset_feed_state = "CLOSED",
                            !.reset = "restart_sleep"]
    /\ UNCHANGED <<slipVars, execVars, feedVars, connVars, bcVars>>

\* a force_full_restart that clears the state and creates no task
ForceFullRestartNoTask ==
    /\ sw.reset = "restart_sleep"
    /\ sw' = [sw EXCEPT !.connection_state = "NOT_CONNECTED",
                        !.reset = "done"]
    /\ UNCHANGED <<slipVars, execVars, feedVars, connVars, bcVars>>

\* force_full_restart after its sleep
ForceFullRestart ==
    /\ sw.reset = "restart_sleep"
    /\ sw' = [sw EXCEPT !.connection_state = "NOT_CONNECTED",
                        !.waiting = @ \cup {"restart"},
                        !.reset = "done"]
    /\ UNCHANGED <<slipVars, execVars, feedVars, connVars, bcVars>>

\* switch_underlying: the state guard, SWITCHING, and _hard_close up to its
\* awaits
SwitchAccept ==
    /\ sw.switch = "idle"
    /\ sw' = IF sw.connection_state \in {"SWITCHING", "DISCONNECTING"}
             THEN [sw EXCEPT !.switch = "ignored"]
             ELSE [hard_close_begin(sw) EXCEPT !.switch = "closing",
                                               !.accepted = TRUE]
    /\ UNCHANGED <<slipVars, execVars, feedVars, connVars, bcVars>>

\* switch_underlying: _hard_close ends, the new underlying is set and the
\* RESETTING state is broadcast
SwitchClosed ==
    /\ sw.switch = "closing"
    /\ sw' = [hard_close_end(sw) EXCEPT !.underlying_key = ResolvedKey,
                                        !.switch = "broadcast"]
    /\ UNCHANGED <<slipVars, execVars, feedVars, connVars, bcVars>>

\* switch_underlying: self.subscriptions = final_subs, then sleep(2.0)
SwitchConfigure ==
    /\ sw.switch = "broadcast"
    /\ sw' = [sw EXCEPT !.subscriptions = {ResolvedKey} \cup CandidateKeys,
                        !.underlying_key = ResolvedKey,
                        !.switch = "sleeping"]
    /\ UNCHANGED <<slipVars, execVars, feedVars, connVars, bcVars>>

\* switch_underlying: create_task(connect_and_run())
SwitchLaunch ==
    /\ sw.switch = "sleeping"
    /\ sw' = [sw EXCEPT !.waiting = @ \cup {"switch"}, !.switch = "done"]
    /\ UNCHANGED <<slipVars, execVars, feedVars, connVars, bcVars>>

\* the event loop delivers the cancellation and the loop ends
BroadcastLoopEnds ==
    /\ "cancelling" \in sw.broadcast_task
    /\ sw' = [sw EXCEPT !.broadcast_task = @ \ {"cancelling"}]
    /\ UNCHANGED <<slipVars, execVars, feedVars, connVars, bcVars>>

ExecutionMonitorEnds ==
    /\ "cancelling" \in sw.execution_task
    /\ sw' = [sw EXCEPT !.execution_task = @ \ {"cancelling"}]
    /\ UNCHANGED <<slipVars, execVars, feedVars, connVars, bcVars>>

\* the websocket endpoint: the client goes away while the receive loop waits
\* for a message (a switch_underlying is awaited inside that loop);
\* ConnectionManager.disconnect calls stop(), _hard_close up to its awaits
ClientDisconnects ==
    /\ sw.stop = "idle"
    /\ sw.switch \in {"idle", "ignored", "done"}
    /\ sw' = [hard_close_begin(sw) EXCEPT !.stop = "closing"]
    /\ UNCHANGED <<slipVars, execVars, feedVars, connVars, bcVars>>

\* stop() returns: _hard_close ends; the endpoint's "finally" cancels the
\* connect_and_run task it created, the connect() of that task included
StopReturns ==
    /\ sw.stop = "closing"
    /\ LET own == sw.lock_owner = "session"
           c == hard_close_end(sw)
       IN  sw' = [c EXCEPT !.feed = IF own THEN NoFeed ELSE @,
                           !.transports = @ - closed_by_cancel(sw, own),
                           !.lock_owner = IF own THEN "none" ELSE @,
                           !.stop = "done"]
    /\ UNCHANGED <<slipVars, execVars, feedVars, connVars, bcVars>>

\* restart_feed: the new keys are added and stop(restart=True) enters
\* _hard_close
RestartFeedStop ==
    /\ sw.restart_feed = "idle"
    /\ sw.stop = "idle"
    /\ sw' = [hard_close_begin(sw) EXCEPT !.restart_feed = "closing"]
    /\ UNCHANGED <<slipVars, execVars, feedVars, connVars, bcVars>>

\* restart_feed: _hard_close ends, the sleep of 2 s, then
\* create_task(connect_and_run())
RestartFeedLaunch ==
    /\ sw.restart_feed = "closing"
    /\ sw' = [hard_close_end(sw) EXCEPT !.waiting = @ \cup {"restart_feed"},
                                        !.restart_feed = "done"]
    /\ UNCHANGED <<slipVars, execVars, feedVars, connVars, bcVars>>

SwitchNext ==
    \/ \E t \in ConnectTasks : RunConnect(t)
    \/ FeedOpens
    \/ FeedFinishes
    \/ AtmShiftTick
    \/ ResetStart
    \/ ResetBuild
    \/ ResetNoExpiry
    \/ ResetStop
    \/ ResetClosed
    \/ ResetLive
    \/ ResetCancelled
    \/ ForceFullRestart
    \/ SwitchAccept
    \/ SwitchClosed
    \/ SwitchConfigure
    \/ SwitchLaunch
    \/ BroadcastLoopEnds
    \/ ExecutionMonitorEnds

\* the same bridge with a client that may go away
StopNext ==
    \/ \E t \in ConnectTasks : RunConnect(t)
    \/ FeedOpens
    \/ FeedFinishes
    \/ AtmShiftTick
    \/ ResetStart
    \/ ResetBuild
    \/ ResetNoExpiry
    \/ ResetStop
    \/ ResetClosed
    \/ ResetLive
    \/ ResetCancelled
    \/ ForceFullRestart
    \/ SwitchAccept
    \/ SwitchClosed
    \/ SwitchConfigure
    \/ SwitchLaunch
    \/ BroadcastLoopEnds
    \/ ExecutionMonitorEnds
    \/ ClientDisconnects
    \/ StopReturns

Init == SlipInit /\ ExecInit /\ FeedInit /\ ConnInit /\ BcastInit /\ SwitchInit

Spec == Init /\ [][ExecNext]_vars

SpecSlip == Init /\ [][SlipNext]_vars

SpecFeed == Init /\ [][FeedNext]_vars

SpecConn == Init /\ [][ConnNext]_vars

SpecBcast == Init /\ [][BcastNext]_vars

SpecSwitch == Init /\ [][SwitchNext]_vars

SpecStop == Init /\ [][StopNext]_vars

\* the same bridge with restart_feed called on it as well
TransportNext ==
    \/ \E t \in ConnectTasks : RunConnect(t)
    \/ FeedOpens
    \/ FeedFinishes
    \/ AtmShiftTick
    \/ ResetStart
    \/ ResetBuild
    \/ ResetNoExpiry
    \/ ResetStop
    \/ ResetClosed
    \/ ResetLive
    \/ ResetCancelled
    \/ ForceFullRestart
    \/ SwitchAccept
    \/ SwitchClosed
    \/ SwitchConfigure
    \/ SwitchLaunch
    \/ BroadcastLoopEnds
    \/ ExecutionMonitorEnds
    \/ ClientDisconnects
    \/ StopReturns
    \/ RestartFeedStop
    \/ RestartFeedLaunch

SpecTransport == Init /\ [][TransportNext]_vars

\* the event loop runs every task that is ready, a sleep ends and the receive
\* loop of a closed websocket ends; the upstream is free never to answer, the
\* client never to switch, and no tick or timeout has to come
SpecSwitchFair ==
    /\ SpecSwitch
    /\ \A t \in ConnectTasks : WF_vars(RunConnect(t))
    /\ WF_vars(FeedFinishes)
    /\ WF_vars(ForceFullRestart)
    /\ WF_vars(SwitchClosed)
    /\ WF_vars(SwitchConfigure)
    /\ WF_vars(SwitchLaunch)

SpecGreeks == Init /\ [][GreeksNext]_vars

SpecVwap == Init /\ [][VwapNext]_vars

SpecQuote == Init /\ [][QuoteNext]_vars

SpecFrame == Init /\ [][FrameNext]_vars

(***************************************************************************)
(* SpecAtm: calculate_atm on drawn spots and strike steps                  *)
(***************************************************************************)

\* spots between two strikes of either step, the halfway spots among them
AtmSpots == 23500..23600
AtmSteps == {50, 100}

\* one call of calculate_atm
AtmCalc ==
    /\ calc.op = "none"
    /\ UNCHANGED <<execVars, feedVars, bridgeVars>>
    /\ \E spot_price \in AtmSpots, strike_step \in AtmSteps :
        calc' = [op |-> "atm", spot_price |-> spot_price, strike_step |-> strike_step,
                 out |-> calculate_atm(spot_price, strike_step)]

AtmNext == AtmCalc

SpecAtm == Init /\ [][AtmNext]_vars

\* the tasks of the bridge are scheduled by the event loop and the upstream
\* answers every request; the client is free never to send a command
SpecConnFair ==
    /\ SpecConn
    /\ WF_vars(ConnActivate)
    /\ WF_vars(Authorize)
    /\ WF_vars(Handshake)

(***************************************************************************)
(* SpecNet: _create_trade and its commit applied to drawn trade books      *)
(***************************************************************************)

NetQtys == {2, 5}
NetEntries == {10000, 10200}
NetOrderQtys == {3, 7, 12}
NetFillPrices == {11000}
MaxBook == 3
\* created_at of the rows of a book of n rows, in insertion order; the
\* column has a resolution of one second, so rows can tie
NetStamps(n) == {ca \in [1..n -> 1..n] : \A i, j \in 1..n : i < j => ca[i] <= ca[j]}
\* the second at which the netting fill commits
NetNow == MaxBook + 1

\* a trade row as _create_trade leaves it: OPEN, or CLOSED at its entry price
book_row(side, qty, entry, status, t, id) ==
    [side |-> side, qty |-> qty, entry_price |-> entry,
     exit_price |-> IF status = "CLOSED" THEN entry ELSE 0,
     status |-> status, realized_pnl |-> 0, created_at |-> t, order_id |-> id,
     exit_order_id |-> IF status = "CLOSED" THEN id ELSE 0]

\* the books of n rows
NetBooks(n) ==
    {[i \in 1..n |-> book_row(sd[i], q[i], e[i], st[i], ca[i], i)] :
        sd \in [1..n -> Sides], q \in [1..n -> NetQtys], e \in [1..n -> NetEntries],
        st \in [1..n -> {"OPEN", "CLOSED"}], ca \in NetStamps(n)}

\* one FILLED order netted against a book and committed
NetFill ==
    /\ calc.op = "none"
    /\ UNCHANGED <<execVars, feedVars, bridgeVars>>
    /\ \E n \in 0..MaxBook, side \in Sides, qty \in NetOrderQtys,
          fill_price \in NetFillPrices :
      \E book \in NetBooks(n) :
      \E ids \in fifo_orders(book, side) :
        LET oid == Len(book) + 1
            o == [NewOrder(side, "MARKET", qty, 0) EXCEPT !.filled_qty = qty,
                                                          !.avg_fill_price = fill_price,
                                                          !.status = "FILLED"]
            w == create_trade(o, oid, book, ids, InitialBalance)
        IN  calc' = [op |-> "net", order |-> o, oid |-> oid, before |-> book,
                     after |-> commit_trades(book, w, NetNow), bal |-> w.bal]

NetNext == NetFill

SpecNet == Init /\ [][NetNext]_vars

(***************************************************************************)
(* Properties of the execution engine                                      *)
(***************************************************************************)

\* an invocation is between a successful acquire_lock and its release_lock
holding(p) == pc[p] \in {"refresh", "execute", "commit", "release"}

\* C1: at any moment at most one invocation for the (user, instrument) is
\* between a successful acquire_lock and its release_lock, including when an
\* attempt outlives the lock's 1-second TTL.
C1_AtMostOneHolder == Cardinality({p \in Procs : holding(p)}) <= 1

\* C2: across every step of every attempt (concurrent ones, failed commits
\* included) the stored filled_qty of an order never decreases and satisfies
\* 0 <= filled_qty <= qty.
C2_FilledQtyMonotoneBounded ==
    [][/\ \A i \in DOMAIN orders : orders'[i].filled_qty >= orders[i].filled_qty
       /\ \A i \in DOMAIN orders' :
            0 <= orders'[i].filled_qty /\ orders'[i].filled_qty <= orders'[i].qty]_vars

\* two attempts on the same order have both committed their fill
C2_Witness ==
    /\ \A p \in Procs : pc[p] = "release" /\ att[p].pend.present
    /\ att[1].oid = att[2].oid
    /\ orders[att[1].oid].filled_qty = orders[att[1].oid].qty

\* the durable store: order rows, trade rows and the user's balance
store == <<orders, trades, balance>>

\* C3: an execute_order call that finds the order's stored status FILLED or
\* CANCELLED is a no-op: none of its steps changes an order, a trade row or
\* the balance.
C3_TerminalOrderNoOp ==
    [][\A p \in Procs : (att[p].term /\ pc'[p] # pc[p]) => store' = store]_vars

\* a call found its order FILLED (by a concurrent attempt) and is leaving
C3_Witness ==
    \E p \in Procs : /\ pc[p] = "release"
                     /\ att[p].term
                     /\ orders[att[p].oid].status = "FILLED"

\* C8: an attempt whose used quote has bid > 0, ask > 0 and bid > ask aborts:
\* it prepares no fill and none of its steps changes the order, the trades
\* or the balance, with or without a simulated price.
C8_CrossedQuoteAborts ==
    [][\A p \in Procs :
        LET m == used_md(md, att[p].sim, now)
        IN  /\ (pc[p] = "execute" /\ pc'[p] # pc[p] /\ m.present
                  /\ m.bid > 0 /\ m.ask > 0 /\ m.bid > m.ask)
               => (pc'[p] = "release" /\ ~att'[p].pend.present /\ att'[p].crossed)
            /\ (att[p].crossed /\ pc'[p] # pc[p]) => store' = store]_vars

\* an attempt carrying a simulated price met a fresh crossed quote and is
\* leaving
C8_Witness ==
    \E p \in Procs : /\ pc[p] = "release"
                     /\ att[p].crossed
                     /\ att[p].sim # 0
                     /\ orders[att[p].oid].status = "OPEN"

\* C11: an attempt that has met a failure (missing, zero-LTP or crossed
\* quote, slippage error, netting commit failure) writes nothing to the
\* durable store, so its order stays as the attempt found it (OPEN or
\* PARTIAL), and its next step is the release of the lock.
C11_FailureContained ==
    [][\A p \in Procs :
        (att[p].fail # "none" /\ pc'[p] # pc[p])
        => /\ store' = store
           /\ pc[p] = "release" /\ pc'[p] = "idle" /\ lockExp' = 0]_vars

(***************************************************************************)
(* Properties of the FIFO netting                                          *)
(***************************************************************************)

\* C4: netting consumes the opposite-side OPEN trades in ascending creation
\* order: a row is changed only if it is an opposite-side OPEN trade and
\* every older opposite-side OPEN trade was fully closed by the same fill.
C4_FifoNetting ==
    calc.op = "net" =>
        \A j \in DOMAIN calc.before :
            calc.after[j] # calc.before[j] =>
                /\ calc.before[j].side = OppositeSide(calc.order.side)
                /\ calc.before[j].status = "OPEN"
                /\ \A i \in DOMAIN calc.before :
                    ( /\ calc.before[i].status = "OPEN"
                      /\ calc.before[i].side = calc.before[j].side
                      /\ calc.before[i].created_at < calc.before[j].created_at )
                    => ( /\ calc.after[i].status = "CLOSED"
                         /\ calc.after[i].exit_order_id = calc.oid
                         /\ calc.after[i].qty = calc.before[i].qty )

\* three longs created at 1 < 2 < 3 and a SELL for more than the first and
\* less than the first two: trade 1 closed, trade 2 reduced, trade 3 as before
C4_Witness ==
    /\ calc.op = "net"
    /\ Len(calc.before) = 3
    /\ \A i \in 1..3 : /\ calc.before[i].status = "OPEN"
                       /\ calc.before[i].side = "BUY"
                       /\ calc.before[i].qty = 5
                       /\ calc.before[i].created_at = i
    /\ calc.order.side = "SELL" /\ calc.order.qty = 7
    /\ calc.after[1].status = "CLOSED"
    /\ calc.after[2].status = "OPEN" /\ calc.after[2].qty = 3
    /\ calc.after[3] = calc.before[3]

\* the rows inserted by the fill
inserted == {k \in DOMAIN calc.after : k > Len(calc.before)}

\* C5: a partly closed trade stays OPEN with its qty reduced by the closed
\* quantity (still > 0) and nothing else changed, and exactly one CLOSED row
\* is inserted for the slice: original entry price, the fill price as exit
\* price, PnL (exit - entry) * slice for a long, (entry - exit) * slice for a
\* short.
C5_PartialClose ==
    calc.op = "net" =>
        \A j \in DOMAIN calc.before :
            LET b == calc.before[j]
                a == calc.after[j]
                slice == b.qty - a.qty
                closed == {k \in inserted : calc.after[k].status = "CLOSED"}
            IN  (b.status = "OPEN" /\ a # b /\ a.status = "OPEN") =>
                    /\ slice > 0 /\ a.qty > 0
                    /\ a = [b EXCEPT !.qty = b.qty - slice]
                    /\ Cardinality(closed) = 1
                    /\ \A k \in closed :
                        /\ calc.after[k].side = b.side
                        /\ calc.after[k].qty = slice
                        /\ calc.after[k].entry_price = b.entry_price
                        /\ calc.after[k].exit_price = calc.order.avg_fill_price
                        /\ calc.after[k].realized_pnl =
                              IF b.side = "BUY"
                              THEN (calc.order.avg_fill_price - b.entry_price) * slice
                              ELSE (b.entry_price - calc.order.avg_fill_price) * slice

\* longs 5 @ 100.00 and 5 @ 102.00, SELL 7 filled at 110.00: PnL 50.00 on
\* trade 1, a closed slice of 2 with PnL 16.00, trade 2 OPEN at qty 3
C5_Witness ==
    /\ calc.op = "net"
    /\ Len(calc.before) = 2 /\ Len(calc.after) = 3
    /\ calc.before[1].qty = 5 /\ calc.before[1].entry_price = 10000
    /\ calc.before[2].qty = 5 /\ calc.before[2].entry_price = 10200
    /\ calc.order.side = "SELL" /\ calc.order.qty = 7
    /\ calc.order.avg_fill_price = 11000
    /\ calc.after[1].status = "CLOSED" /\ calc.after[1].realized_pnl = 5000
    /\ calc.after[2].status = "OPEN" /\ calc.after[2].qty = 3
    /\ calc.after[3].status = "CLOSED" /\ calc.after[3].qty = 2
    /\ calc.after[3].realized_pnl = 1600

(***************************************************************************)
(* Properties of the slippage model                                        *)
(***************************************************************************)

\* C6: the slippage returned by calculate_slippage, after its rounding to
\* the tick, has magnitude at most 3.0 * spread.
C6_SlippageAtMostThreeSpreads ==
    calc.op = "slippage" => Abs(calc.out) <= 3 * calc.spread

\* the slippage a fill paid against the touch
paid_slippage ==
    IF calc.side = "BUY" THEN calc.out.fill_price - calc.ask
                         ELSE calc.bid - calc.out.fill_price

\* C7: every MARKET/INSTANT fill and every fill of a LIMIT order crossing the
\* spread pays, when spread > 0, a slippage of at least 0.5 * spread (after
\* the rounding to the tick and the limit-price cap).
C7_AggressiveFillPaysHalfSpread ==
    ( /\ calc.op \in {"market", "limit"}
      /\ calc.out.filled
      /\ calc.aggressive
      /\ calc.ask - calc.bid > 0 )
    => 2 * paid_slippage >= calc.ask - calc.bid

(***************************************************************************)
(* Properties of the ATM tracking                                          *)
(***************************************************************************)

\* C9: a spot tick lying strictly within half a strike step of the current
\* ATM strike starts no reset.
C9_NoResetWithinHalfStep == feed.last.within => ~feed.last.started

\* C10: once a tick has moved the spot to a value whose ATM strike differs
\* from the current ATM (no reset in progress, cooldown elapsed) and the spot
\* stays there, exactly one reset has been started for the move.
C10_ExactlyOneResetPerMove == feed.move.active => feed.move.resets = 1

(***************************************************************************)
(* Properties of the connection attempts                                   *)
(***************************************************************************)

\* C12: when the upstream has rejected a connection attempt with a 403-class
\* error, the connection state is FAILED, the session has received the
\* feed-unavailable notice, and the stored credential is unchanged.
C12_ForbiddenMarksFeedUnavailable ==
    (conn.last.kind = "rejected" /\ conn.last.class = "403")
    => /\ conn.connection_state = "FAILED"
       /\ "FEED_UNAVAILABLE" \in conn.notices
       /\ conn.cred_status = "TOKEN_VALID" /\ conn.token

\* C13: when the upstream has rejected a connection attempt with a 401-class
\* error, the stored credential is invalidated (status TOKEN_EXPIRED, token
\* cleared) and the session has received the token-invalid notice.
C13_UnauthorizedInvalidatesToken ==
    (conn.last.kind = "rejected" /\ conn.last.class = "401")
    => /\ conn.cred_status = "TOKEN_EXPIRED" /\ ~conn.token
       /\ "TOKEN_EXPIRED" \in conn.notices

\* C14: after a transport error that is neither 401- nor 403-class has
\* closed the upstream connection, the bridge eventually starts a new
\* connection attempt (state CONNECTING), unless a client command has come
\* first.
C14_TransientErrorReconnects ==
    (conn.last.class = "other")
    ~> (conn.connection_state = "CONNECTING" \/ conn.last.kind = "client")

\* C17: the activation whose market-hours check fails leaves the state
\* MARKET_CLOSED, has sent the market-closed notice, and has made no upstream
\* authorization call and opened no transport.
C17_MarketClosedNoUpstream ==
    [][conn'.last.kind = "market_closed"
       => /\ conn'.connection_state = "MARKET_CLOSED"
          /\ "MARKET_STATUS" \in conn'.notices
          /\ conn'.auth_calls = conn.auth_calls
          /\ conn'.task = "none"
          /\ conn'.notices \ conn.notices \subseteq {"MARKET_STATUS"}]_vars

\* an activation has found the market closed after an earlier session was
\* open
C17_Witness ==
    /\ conn.last.kind = "market_closed"
    /\ conn.connection_state = "MARKET_CLOSED"
    /\ "UPSTOX_FEED_CONNECTED" \in conn.notices
    /\ conn.auth_calls > 0


(***************************************************************************)
(* Properties of the messages to the client                                *)
(***************************************************************************)

\* C15: across the FEED_STATE messages the bridge sends to its client, the
\* version strictly increases in send order, whichever way the broadcasting
\* tasks interleave.
C15_VersionsIncrease ==
    \A i, j \in 1..Len(bc.feed_states) :
        i < j => bc.feed_states[i] < bc.feed_states[j]

\* three messages sent while two broadcasters are suspended in send_text
C15_Witness ==
    /\ Len(bc.feed_states) >= 3
    /\ Cardinality(bc.sending) >= 2

\* C16: for each instrument, the underlying included, the seq of its entries
\* strictly increases over the successive MARKET_UPDATE batches of a session.
C16_SeqIncreases ==
    \A i, j \in 1..Len(bc.batches) :
        \A k \in Instruments :
            (i < j /\ k \in DOMAIN bc.batches[i] /\ k \in DOMAIN bc.batches[j])
            => bc.batches[i][k] < bc.batches[j][k]


(***************************************************************************)
(* Properties of calculate_greeks                                          *)
(***************************************************************************)

\* C19: calculate_greeks returns the all-zero dictionary and raises nothing
\* whenever the spot, the strike or the option price is <= 0 or the days to
\* expiry are < 0.
C19_InvalidInputsGiveZeros ==
    (/\ calc.op = "greeks"
     /\ \/ calc.spot_price <= 0 \/ calc.strike_price <= 0 \/ calc.option_ltp <= 0
        \/ calc.time_to_expiry_days < 0)
    => /\ calc.out.greeks = ZeroGreeks
       /\ ~calc.out.raised

\* an expired option with valid prices
C19_Witness ==
    /\ calc.op = "greeks"
    /\ calc.spot_price > 0 /\ calc.strike_price > 0 /\ calc.option_ltp > 0
    /\ calc.time_to_expiry_days < 0
    /\ calc.out.greeks = ZeroGreeks


(***************************************************************************)
(* Properties of the fill application                                      *)
(***************************************************************************)

RECURSIVE fills_value(_)
fills_value(fills) ==
    IF fills = << >> THEN 0
    ELSE fills[1].qty * fills[1].price + fills_value(Tail(fills))

C20_SwitchOpensNewSession ==
    (sw.accepted /\ Len(sw.opened) >= 1)
    => sw.opened[1] = {ResolvedKey} \cup CandidateKeys

(***************************************************************************)
(* stop() and the background loops                                         *)
(***************************************************************************)

\* C21: once stop() has returned for a client that went away, the bridge
\* has no upstream transport connecting or open and no broadcast loop or
\* execution monitor that was started and not cancelled, whatever a reset,
\* a switch or a forced restart in flight goes on to do.
C21_StoppedStaysStopped ==
    sw.stop = "done"
    => /\ sw.feed.phase \notin {"authorizing", "open"}
       /\ "running" \notin sw.broadcast_task
       /\ "running" \notin sw.execution_task

\* C22: while _hard_close of a reset or of a switch closes the transport,
\* and when it goes on to clear the buffer, the broadcast loop and the
\* execution monitor it cancelled have ended.
C22_LoopsEndBeforeClose ==
    (sw.reset = "closing" \/ sw.switch = "closing")
    => /\ "cancelling" \notin sw.broadcast_task
       /\ "cancelling" \notin sw.execution_task


\* C23: a reset that has finished has not left RESETTING as the last feed
\* state it sent: it went on to LIVE, or to CLOSED when its timeout fired.
C23_ResetEndsLive ==
    sw.reset = "done" => sw.reset_feed_state # "RESETTING"

C25_FirstTickResetIffUnseeded ==
    feed.last.first => (feed.last.started <=> ~feed.seeded)

\* C26: a spot tick that starts a reset, the first-tick reset included,
\* comes at least 5 seconds after the reset start before it.
C26_ResetStartsFiveSecondsApart ==
    (feed.last.started /\ feed.last.prev # 0)
    => feed.reset_start_ts - feed.last.prev >= ResetCooldown

\* C27: a spot tick that comes while reset_in_progress is set starts no
\* reset, and at most one reset task of the bridge has not ended.
C27_OneResetInFlight ==
    /\ ~(feed.last.during /\ feed.last.started)
    /\ feed.reset_tasks <= 1

\* a tick at least half a strike step from the current ATM, after the
\* cooldown, came during a reset and started nothing
C27_Witness ==
    /\ feed.last.during
    /\ ~feed.last.started
    /\ feed.current_atm # 0
    /\ ~feed.last.within
    /\ ~cooldown_active(feed.t, feed.last_reset_ts)
    /\ feed.reset_tasks = 1

(***************************************************************************)
(* quote sourcing                                                          *)
(***************************************************************************)

\* C28: an attempt on a quote whose bid_simulated and ask_simulated differ
\* that fills takes its base price from the LTP (or from the simulated price
\* it was given), never from the quoted bid or ask.
C28_MixedQuotePricesFromLtp ==
    (/\ calc.op = "quote"
     /\ calc.quote.bid_simulated # calc.quote.ask_simulated
     /\ calc.out.filled)
    => calc.out.expected_price \in {calc.quote.ltp, calc.sim}

\* C29: an attempt on a quote of real depth whose receipt timestamps are
\* older than the allowance (15 s for a spread above 10 %, else 3 s) that
\* fills does not take the quoted bid or ask as its base price.
C29_StaleQuoteNotUsed ==
    (/\ calc.op = "quote"
     /\ ~calc.quote.bid_simulated /\ ~calc.quote.ask_simulated
     /\ \/ age(calc.quote.bid_ts, calc.t) > staleness_threshold(calc.quote)
        \/ age(calc.quote.ask_ts, calc.t) > staleness_threshold(calc.quote)
     /\ calc.out.filled)
    => calc.out.expected_price \in {calc.quote.ltp, calc.sim}

\* C30: a quote the feed writes has bid_simulated = ask_simulated.
C30_SimulatedFlagsAgree ==
    calc.op = "store" => calc.quote.bid_simulated = calc.quote.ask_simulated

(***************************************************************************)
(* the spot in the MARKET_UPDATE batches                                   *)
(***************************************************************************)

\* C31: an entry of the underlying whose value was derived by put-call
\* parity carries synthetic = true in every batch it is sent in.
C31_DerivedSpotIsSynthetic ==
    \A i \in 1..Len(bc.spots) :
        (bc.spots[i].sent /\ bc.spots[i].parity) => bc.spots[i].synthetic

\* C32: a pass of the broadcast loop that finds a genuine last-known spot
\* and the client's socket open sends a batch with the underlying's spot.
C32_SpotSentEveryCycle ==
    (bc.cycle.ran /\ bc.cycle.had_spot /\ bc.cycle.ws_open) => bc.cycle.sent_spot

\* C33: every instrument of a message whose record is a tick is sequenced,
\* buffered and stored, whatever happens to the other records of it.
C33_OtherInstrumentsProcessed ==
    calc.op = "frame"
    => \A i \in DOMAIN calc.feeds :
          calc.feeds[i].kind = "tick" => calc.feeds[i].key \in calc.processed

(***************************************************************************)
(* netting: the commit, the balance and the open quantity                  *)
(***************************************************************************)

\* C34: the step in which the commit of an attempt fails leaves the order
\* rows, the trade rows and the user's balance of the durable store as they
\* were.
C34_FailedCommitPersistsNothing ==
    [][\A p \in Procs :
         (pc[p] = "commit" /\ pc'[p] = "release" /\ att'[p].fail = "commit")
         => (orders' = orders /\ trades' = trades /\ balance' = balance)]_vars

\* an attempt whose commit failed had a fill to write and its order is
\* still OPEN
C34_Witness ==
    \E p \in Procs :
        /\ att[p].fail = "commit"
        /\ att[p].pend.present
        /\ att[p].pend.order.status = "FILLED"
        /\ orders[att[p].oid].status = "OPEN"

\* C35: the commit of a FILLED order changes the user's balance by the sum
\* over the lots it closed and the lot it opened of quantity x fill price
\* (closed lots: + for a SELL, - for a BUY; the opened lot: - for a long,
\* + for a short), and the balance changes in no other step.
C35_BalanceChangeIsNetting ==
    [][/\ \A p \in Procs :
            (/\ pc[p] = "commit" /\ pc'[p] = "release"
             /\ att'[p].fail # "commit"
             /\ att[p].pend.user)
            => LET w == att[p].pend
                   o == w.order
                   n == Len(w.ins)
                   opened == IF n > 0 /\ w.ins[n].status = "OPEN"
                             THEN w.ins[n].qty ELSE 0
                   closed == o.qty - opened
               IN  balance' - balance =
                     IF o.side = "SELL"
                     THEN closed * o.avg_fill_price + opened * o.avg_fill_price
                     ELSE 0 - closed * o.avg_fill_price - opened * o.avg_fill_price
       /\ balance' # balance
            => \E p \in Procs : pc[p] = "commit" /\ pc'[p] = "release"
                                /\ att[p].pend.user]_vars

(***************************************************************************)
(* _execute_limit: the limit price bounds the fill                         *)
(***************************************************************************)

\* C36: a fill of a LIMIT order is at a price <= limit_price for a BUY and
\* >= limit_price for a SELL, and the order fills only when
\* ask <= limit_price (BUY) or bid >= limit_price (SELL).
C36_LimitFillRespectsLimit ==
    (calc.op = "limit" /\ calc.out.filled)
    => IF calc.side = "BUY"
       THEN calc.out.fill_price <= calc.limit_price /\ calc.ask <= calc.limit_price
       ELSE calc.out.fill_price >= calc.limit_price /\ calc.bid >= calc.limit_price

\* a marketable BUY whose slipped price went beyond the limit is filled at
\* the limit
C36_Witness ==
    /\ calc.op = "limit" /\ calc.out.filled
    /\ calc.side = "BUY"
    /\ calc.ask < calc.limit_price
    /\ calc.out.fill_price = calc.limit_price
    /\ calc.out.slippage = calc.limit_price - calc.ask

(***************************************************************************)
(* calculate_atm: the rounding of the halfway spot                         *)
(***************************************************************************)

\* C37: calculate_atm(spot) is step x floor(spot / step + 1/2) for every
\* step > 0: a spot halfway between two strikes maps to the higher strike.
C37_AtmRoundsHalfUp ==
    (calc.op = "atm" /\ calc.strike_step > 0)
    => calc.out = calc.strike_step
                    * ((2 * calc.spot_price + calc.strike_step)
                         \div (2 * calc.strike_step))

(***************************************************************************)
(* netting: each FILLED order is netted once                               *)
(***************************************************************************)

\* C38: the quantity of the OPEN BUY trades less that of the OPEN SELL
\* trades equals the quantity of the FILLED BUY orders less that of the
\* FILLED SELL orders, in every state of the durable store.
C38_OpenQtyMatchesFilledOrders ==
    LET t_qty(i) == IF trades[i].status # "OPEN" THEN 0
                    ELSE IF trades[i].side = "BUY" THEN trades[i].qty
                                                   ELSE 0 - trades[i].qty
        o_qty(i) == IF orders[i].status # "FILLED" THEN 0
                    ELSE IF orders[i].side = "BUY" THEN orders[i].qty
                                                   ELSE 0 - orders[i].qty
        T[i \in 0..Len(trades)] == IF i = 0 THEN 0 ELSE T[i - 1] + t_qty(i)
        O[i \in 0..Len(orders)] == IF i = 0 THEN 0 ELSE O[i - 1] + o_qty(i)
    IN  T[Len(trades)] = O[Len(orders)]

(***************************************************************************)
(* the reset and the session it opens                                      *)
(***************************************************************************)

\* C39: once the connect_and_run called by a reset has opened its session,
\* the reset is not ended by its timeout: no step takes it to the CLOSED
\* broadcast with reason RESET_TIMEOUT and the forced restart, which would
\* also take the session away.
C39_ReconnectedResetNotTimedOut ==
    [][(/\ sw.reset = "connecting"
        /\ sw.lock_owner = "reset"
        /\ sw.feed.phase = "open")
       => ~(/\ sw'.reset = "restart_sleep"
            /\ sw'.reset_feed_state = "CLOSED")]_vars

(***************************************************************************)
(* the connect lock and the upstream transports                            *)
(***************************************************************************)

\* C40: at most one upstream websocket of the bridge is open at any time,
\* whichever of the activation, the reset, the forced restart, restart_feed
\* and switch_underlying called connect_and_run.
C40_OneTransportOpen ==
    sw.transports <= 1

\* a connect_and_run started by another caller waits for the connect lock
\* while the session that holds it has its websocket open
C40_Witness ==
    /\ sw.transports = 1
    /\ sw.feed.phase \in {"open", "closing"}
    /\ sw.lock_owner # "none"
    /\ sw.waiting # {}

====
